---- MODULE Spec2Model ----
(***************************************************************************)
(* A model of the singly-linked list library of src/src/list.h.            *)
(*                                                                         *)
(* The heap is a finite array of node cells.  A cell is either free or     *)
(* holds a live List node {data, next}.  `root` is the caller's List*      *)
(* variable whose address the caller passes as `List **root`; a call made  *)
(* with a NULL `List **` is a call with hasSlot = FALSE.  A payload (the   *)
(* object `data` points to) is carried by value in the node that holds it: *)
(* the library never compares payload addresses, and every allocation and  *)
(* release of a payload is recorded in the log of the call that performed  *)
(* it.  `stdin` is the unread rest of the standard input, a sequence of    *)
(* characters.  `out` is the caller's int variable that a function writes  *)
(* through a pointer, or the number a function returns; `printed` logs the *)
(* nodes a call has rendered on the standard output.                       *)
(***************************************************************************)
EXTENDS Integers, Sequences, FiniteSets, TLC

\* Bounds of the model.
MaxNodes == 3
MaxVal == 2
DedupLen == 6
MaxBufferSize == 4

Addr == 1..MaxNodes
Values == 1..MaxVal
Indexes == 0..(MaxNodes + 1)
MoreValues == 1..(MaxVal + 1)

NULL == 0

\* errno values
ENONE == "0"
EINVAL == "EINVAL"
ENOMEM == "ENOMEM"
ECANCELED == "ECANCELED"
EIO == "EIO"

\* DeallocationMode
WEAK == "WEAK"
STRONG == "STRONG"
Modes == {WEAK, STRONG}

\* ListDataType (INT is the implemented one for duplicate removal)
INT == "INT"
FLOAT == "FLOAT"
CHAR == "CHAR"
\* STRING of enum ListDataType (the bare name is a TLA+ keyword)
STRING_TYPE == "STRING"
DOUBLE == "DOUBLE"
DataTypes == {INT, FLOAT}

\* payloads: the object a node's `data` field points to
NullData == [kind |-> "null", val |-> 0]
IntData(v) == [kind |-> "int", val |-> v]
\* a string payload: the characters before the terminator
StrData(s) == [kind |-> "str", val |-> s]

FreeNode == [live |-> FALSE, data |-> NullData, next |-> NULL]

VARIABLES node, root, errno, undefined, heapFault, stdin, last, hist

vars == <<node, root, errno, undefined, heapFault, stdin, last, hist>>

(***************************************************************************)
(* The memory a call works on, with the log of what the call allocated     *)
(* and released.                                                           *)
(***************************************************************************)
Mem ==
  [node |-> node, root |-> root, errno |-> errno, undefined |-> undefined,
   fault |-> heapFault, stdin |-> stdin, out |-> 0, printed |-> <<>>,
   allocs |-> <<>>, frees |-> <<>>, pallocs |-> <<>>, pfrees |-> <<>>]

R(m, ret) == [m |-> m, ret |-> ret]

SetErrno(m, e) == [m EXCEPT !.errno = e]

FreeCells(m) == {a \in DOMAIN m.node : ~m.node[a].live}

LowestFree(m) == CHOOSE a \in FreeCells(m) : \A b \in FreeCells(m) : a <= b

\* free(p) of a node cell: releasing a cell that is not live is a heap fault
free_node(m, n) ==
  IF ~m.node[n].live
  THEN [m EXCEPT !.fault = TRUE, !.frees = Append(@, n)]
  ELSE [m EXCEPT !.node[n] = FreeNode, !.frees = Append(@, n)]

\* free(p) of the payload held by node n
free_data(m, n) == [m EXCEPT !.pfrees = Append(@, n)]

\* malloc of a payload that node n is to hold
malloc_data(m, n) == [m EXCEPT !.pallocs = Append(@, n)]

\* the traversal `for (List *i = *root; i; i = i->next)`, cut once it has made more
\* steps than the heap has cells (a chain that long runs through a cell twice)
RECURSIVE Walk(_, _, _)
Walk(nd, n, fuel) ==
  IF n = NULL \/ fuel = 0 THEN <<>>
  ELSE <<n>> \o Walk(nd, nd[n].next, fuel - 1)

Chain(nd, r) == Walk(nd, r, Cardinality(DOMAIN nd) + 1)

ChainData(nd, r) == [i \in 1..Len(Chain(nd, r)) |-> nd[Chain(nd, r)[i]].data]

(***************************************************************************)
(* Node allocation                                                         *)
(***************************************************************************)
list_allocate_node(m, data, ok) ==
  IF ~ok THEN R(SetErrno(m, ENOMEM), NULL)
  ELSE LET a == LowestFree(m) IN
       R([m EXCEPT !.node[a] = [live |-> TRUE, data |-> data, next |-> NULL],
                   !.allocs = Append(@, a)], a)

\* the copy of list_allocate_node in the second copy of the library (list.h from
\* line 853 on, and src/unnamed/part_000)
list_allocate_node_second_copy(m, data, ok) ==
  IF ~ok THEN R(SetErrno(m, EINVAL), NULL)
  ELSE LET a == LowestFree(m) IN
       R([m EXCEPT !.node[a] = [live |-> TRUE, data |-> data, next |-> NULL],
                   !.allocs = Append(@, a)], a)


\* list_deallocate_node releasing the payload whatever the mode
list_deallocate_node_frees_always(m, hasSlot, n, mode) ==
  IF ~hasSlot THEN [m |-> SetErrno(m, EINVAL), ret |-> FALSE, slot |-> n]
  ELSE IF n = NULL THEN [m |-> m, ret |-> FALSE, slot |-> n]
  ELSE LET m1 == IF m.node[n].data.kind # "null" THEN free_data(m, n) ELSE m
       IN [m |-> free_node(m1, n), ret |-> TRUE, slot |-> NULL]

\* list_deallocate_node leaving the caller's slot as it was
list_deallocate_node_keeps_slot(m, hasSlot, n, mode) ==
  IF ~hasSlot THEN [m |-> SetErrno(m, EINVAL), ret |-> FALSE, slot |-> n]
  ELSE IF n = NULL THEN [m |-> m, ret |-> FALSE, slot |-> n]
  ELSE LET m1 == IF mode = STRONG /\ m.node[n].data.kind # "null"
                 THEN free_data(m, n) ELSE m
       IN [m |-> free_node(m1, n), ret |-> TRUE, slot |-> n]


\* n is the content of the slot `*node`; the result's slot is its new content
list_deallocate_node(m, hasSlot, n, mode) ==
  IF ~hasSlot THEN [m |-> SetErrno(m, EINVAL), ret |-> FALSE, slot |-> n]
  ELSE IF n = NULL THEN [m |-> m, ret |-> FALSE, slot |-> n]
  ELSE LET m1 == IF mode = STRONG /\ m.node[n].data.kind # "null"
                 THEN free_data(m, n) ELSE m
       IN [m |-> free_node(m1, n), ret |-> TRUE, slot |-> NULL]

(***************************************************************************)
(* Searching functions used by the mutating ones                           *)
(***************************************************************************)
RECURSIVE get_by_index_loop(_, _, _, _)
get_by_index_loop(m, i, current_index, index) ==
  IF i = NULL THEN NULL
  ELSE IF index = current_index THEN i
  ELSE IF current_index + 1 > index THEN NULL
  ELSE get_by_index_loop(m, m.node[i].next, current_index + 1, index)

list_get_by_index_from_one(m, hasSlot, index) ==
  IF ~hasSlot THEN R(SetErrno(m, EINVAL), NULL)
  ELSE R(m, get_by_index_loop(m, m.root, 1, index))

list_get_by_index(m, hasSlot, index) ==
  IF ~hasSlot THEN R(SetErrno(m, EINVAL), NULL)
  ELSE R(m, get_by_index_loop(m, m.root, 0, index))

RECURSIVE get_last_loop(_, _)
get_last_loop(m, lst) ==
  IF m.node[lst].next # NULL THEN get_last_loop(m, m.node[lst].next) ELSE lst

RECURSIVE get_by_integer_value_loop(_, _, _)
get_by_integer_value_loop(m, i, value) ==
  IF i = NULL THEN NULL
  ELSE IF m.node[i].data.val = value THEN i
  ELSE get_by_integer_value_loop(m, m.node[i].next, value)

\* list_get_by_integer_value setting errno when the value is not in the chain
list_get_by_integer_value_einval_on_absent(m, hasSlot, value) ==
  IF ~hasSlot THEN R(SetErrno(m, EINVAL), NULL)
  ELSE LET found == get_by_integer_value_loop(m, m.root, value) IN
       IF found = NULL THEN R(SetErrno(m, EINVAL), NULL) ELSE R(m, found)

list_get_by_integer_value(m, hasSlot, value) ==
  IF ~hasSlot THEN R(SetErrno(m, EINVAL), NULL)
  ELSE R(m, get_by_integer_value_loop(m, m.root, value))

\* strcmp on strings without embedded terminators: 0 exactly for equal strings
\* (only the comparison with 0 is used)
strcmp(a, b) == IF a = b THEN 0 ELSE 1

\* the string search going on to the last match
RECURSIVE get_by_string_value_loop_last(_, _, _)
get_by_string_value_loop_last(m, i, string) ==
  IF i = NULL THEN NULL
  ELSE LET later == get_by_string_value_loop_last(m, m.node[i].next, string) IN
       IF later # NULL THEN later
       ELSE IF strcmp(m.node[i].data.val, string) = 0 THEN i
       ELSE NULL


RECURSIVE get_by_string_value_loop(_, _, _)
get_by_string_value_loop(m, i, string) ==
  IF i = NULL THEN NULL
  ELSE IF strcmp(m.node[i].data.val, string) = 0 THEN i
  ELSE get_by_string_value_loop(m, m.node[i].next, string)

list_get_by_string_value(m, hasSlot, string) ==
  IF ~hasSlot THEN R(SetErrno(m, EINVAL), NULL)
  ELSE R(m, get_by_string_value_loop(m, m.root, string))

\* list_get_by_value; `value` is the object the `void *value` points to
list_get_by_value(m, hasSlot, value, data_type) ==
  CASE data_type = INT -> list_get_by_integer_value(m, hasSlot, value.val)
    [] data_type = STRING_TYPE -> list_get_by_string_value(m, hasSlot, value.val)
    [] OTHER -> R(SetErrno(m, ECANCELED), NULL)

RECURSIVE get_max_int_loop(_, _, _)
get_max_int_loop(m, i, max) ==
  IF i = NULL THEN max
  ELSE LET temp == m.node[i].data.val IN
       get_max_int_loop(m, m.node[i].next, IF temp > max THEN temp ELSE max)

list_get_max_int_keeps_first(m, hasSlot, hasMax) ==
  IF ~hasSlot \/ m.root = NULL \/ ~hasMax THEN R(SetErrno(m, EINVAL), FALSE)
  ELSE R([m EXCEPT !.out = m.node[m.root].data.val], TRUE)

\* hasMax: whether `int *max` is not NULL; m.out is the int it points to
list_get_max_int(m, hasSlot, hasMax) ==
  IF ~hasSlot \/ m.root = NULL \/ ~hasMax THEN R(SetErrno(m, EINVAL), FALSE)
  ELSE R([m EXCEPT !.out = get_max_int_loop(m, m.node[m.root].next,
                                            m.node[m.root].data.val)], TRUE)

RECURSIVE get_min_int_loop(_, _, _)
get_min_int_loop(m, i, min) ==
  IF i = NULL THEN min
  ELSE LET temp == m.node[i].data.val IN
       get_min_int_loop(m, m.node[i].next, IF temp < min THEN temp ELSE min)

list_get_min_int(m, hasSlot, hasMin) ==
  IF ~hasSlot \/ m.root = NULL \/ ~hasMin THEN R(SetErrno(m, EINVAL), FALSE)
  ELSE R([m EXCEPT !.out = get_min_int_loop(m, m.node[m.root].next,
                                            m.node[m.root].data.val)], TRUE)

RECURSIVE get_length_loop(_, _, _)
get_length_loop(m, i, length) ==
  IF i = NULL THEN length ELSE get_length_loop(m, m.node[i].next, length + 1)

list_get_length_einval_on_empty(m, hasSlot) ==
  IF ~hasSlot \/ m.root = NULL THEN R(SetErrno(m, EINVAL), 0)
  ELSE R(m, get_length_loop(m, m.root, 0))

list_get_length(m, hasSlot) ==
  IF ~hasSlot THEN R(SetErrno(m, EINVAL), 0)
  ELSE R(m, get_length_loop(m, m.root, 0))

list_get_last(m, hasSlot) ==
  IF ~hasSlot \/ m.root = NULL THEN R(SetErrno(m, EINVAL), NULL)
  ELSE R(m, get_last_loop(m, m.root))

(***************************************************************************)
(* Push                                                                    *)
(***************************************************************************)
\* list_push_back linking the new node in front of the chain
list_push_back_prepends(m, hasSlot, data, ok) ==
  IF ~hasSlot THEN R(SetErrno(m, EINVAL), FALSE)
  ELSE LET a == list_allocate_node(m, data, ok) IN
       IF a.ret = NULL THEN R(SetErrno(a.m, ENOMEM), FALSE)
       ELSE LET l == list_get_last(a.m, TRUE) IN
            IF l.ret = NULL
            THEN R([l.m EXCEPT !.root = a.ret], TRUE)
            ELSE R([l.m EXCEPT !.node[a.ret].next = m.root, !.root = a.ret], TRUE)

list_push_back(m, hasSlot, data, ok) ==
  IF ~hasSlot THEN R(SetErrno(m, EINVAL), FALSE)
  ELSE LET a == list_allocate_node(m, data, ok) IN
       IF a.ret = NULL THEN R(SetErrno(a.m, ENOMEM), FALSE)
       ELSE LET l == list_get_last(a.m, TRUE) IN
            IF l.ret = NULL
            THEN R([l.m EXCEPT !.root = a.ret], TRUE)
            ELSE R([l.m EXCEPT !.node[l.ret].next = a.ret], TRUE)

\* list_push_front without `new_node->next = *root`
list_push_front_drops_chain(m, hasSlot, data, ok) ==
  IF ~hasSlot THEN R(SetErrno(m, EINVAL), FALSE)
  ELSE LET a == list_allocate_node(m, data, ok) IN
       IF a.ret = NULL THEN R(SetErrno(a.m, ENOMEM), FALSE)
       ELSE R([a.m EXCEPT !.root = a.ret], TRUE)

\* list_push_front reporting a failed allocation as EINVAL
list_push_front_einval_on_nomem(m, hasSlot, data, ok) ==
  IF ~hasSlot THEN R(SetErrno(m, EINVAL), FALSE)
  ELSE LET a == list_allocate_node(m, data, ok) IN
       IF a.ret = NULL THEN R(SetErrno(a.m, EINVAL), FALSE)
       ELSE R([a.m EXCEPT !.node[a.ret].next = m.root, !.root = a.ret], TRUE)

list_push_front(m, hasSlot, data, ok) ==
  IF ~hasSlot THEN R(SetErrno(m, EINVAL), FALSE)
  ELSE LET a == list_allocate_node(m, data, ok) IN
       IF a.ret = NULL THEN R(SetErrno(a.m, ENOMEM), FALSE)
       ELSE R([a.m EXCEPT !.node[a.ret].next = m.root, !.root = a.ret], TRUE)

\* The outcomes of `previous_node->next` with previous_node == NULL (undefined
\* behaviour): "trap" - the access faults and the process dies inside the call;
\* "stray" - the accesses near address 0 do not fault, touch no list node, and the
\* call runs on to `return true` with the new node linked nowhere.  Either way the
\* execution has left defined behaviour: `undefined` records which outcome was
\* taken and no further call is explored after it.
NullDerefOutcomes == {"trap", "stray"}

\* list_push_by_index without `new_node->next = next_node`
list_push_by_index_drops_tail(m, hasSlot, data, index, ok) ==
  IF ~hasSlot THEN {R(SetErrno(m, EINVAL), FALSE)}
  ELSE IF m.root = NULL
  THEN IF index # 0 THEN {R(m, FALSE)} ELSE {list_push_front(m, hasSlot, data, ok)}
  ELSE IF index = 0 THEN {list_push_front(m, hasSlot, data, ok)}
  ELSE LET a == list_allocate_node(m, data, ok) IN
       IF a.ret = NULL THEN {R(SetErrno(a.m, ENOMEM), FALSE)}
       ELSE LET p == list_get_by_index(a.m, TRUE, index - 1) IN
            IF p.ret = NULL
            THEN {R([p.m EXCEPT !.undefined = ub], ub = "stray") :
                    ub \in NullDerefOutcomes}
            ELSE {R([p.m EXCEPT !.node[p.ret].next = a.ret], TRUE)}

\* list_push_by_index reporting EINVAL for a non-zero index on an empty chain
list_push_by_index_einval_on_empty(m, hasSlot, data, index, ok) ==
  IF ~hasSlot THEN {R(SetErrno(m, EINVAL), FALSE)}
  ELSE IF m.root = NULL
  THEN IF index # 0 THEN {R(SetErrno(m, EINVAL), FALSE)}
       ELSE {list_push_front(m, hasSlot, data, ok)}
  ELSE IF index = 0 THEN {list_push_front(m, hasSlot, data, ok)}
  ELSE LET a == list_allocate_node(m, data, ok) IN
       IF a.ret = NULL THEN {R(SetErrno(a.m, ENOMEM), FALSE)}
       ELSE LET p == list_get_by_index(a.m, TRUE, index - 1) IN
            IF p.ret = NULL
            THEN {R([p.m EXCEPT !.undefined = ub], ub = "stray") :
                    ub \in NullDerefOutcomes}
            ELSE {R([p.m EXCEPT !.node[p.ret].next = a.ret,
                                !.node[a.ret].next = p.m.node[p.ret].next], TRUE)}

\* list_push_by_index has a set of results: one, unless it runs into the undefined access
list_push_by_index(m, hasSlot, data, index, ok) ==
  IF ~hasSlot THEN {R(SetErrno(m, EINVAL), FALSE)}
  ELSE IF m.root = NULL
  THEN IF index # 0 THEN {R(m, FALSE)} ELSE {list_push_front(m, hasSlot, data, ok)}
  ELSE IF index = 0 THEN {list_push_front(m, hasSlot, data, ok)}
  ELSE LET a == list_allocate_node(m, data, ok) IN
       IF a.ret = NULL THEN {R(SetErrno(a.m, ENOMEM), FALSE)}
       ELSE LET p == list_get_by_index(a.m, TRUE, index - 1) IN
            IF p.ret = NULL
            THEN {R([p.m EXCEPT !.undefined = ub], ub = "stray") :
                    ub \in NullDerefOutcomes}
            ELSE {R([p.m EXCEPT !.node[p.ret].next = a.ret,
                                !.node[a.ret].next = p.m.node[p.ret].next], TRUE)}

(***************************************************************************)
(* Pop                                                                     *)
(***************************************************************************)
RECURSIVE pop_back_loop(_, _, _)
pop_back_loop(m, previous_node, current_node) ==
  IF m.node[current_node].next # NULL
  THEN pop_back_loop(m, current_node, m.node[current_node].next)
  ELSE <<previous_node, current_node>>

\* list_pop_back without `previous_node->next = NULL`
list_pop_back_keeps_link(m, hasSlot, mode) ==
  IF ~hasSlot \/ m.root = NULL THEN R(SetErrno(m, EINVAL), FALSE)
  ELSE IF m.node[m.root].next = NULL
  THEN LET d == list_deallocate_node(m, TRUE, m.root, mode) IN
       R([d.m EXCEPT !.root = d.slot], TRUE)
  ELSE LET pc == pop_back_loop(m, m.root, m.node[m.root].next)
           d == list_deallocate_node(m, TRUE, pc[2], mode)
       IN R(d.m, TRUE)

\* list_pop_back releasing the node before the last one
list_pop_back_pops_front(m, hasSlot, mode) ==
  IF ~hasSlot \/ m.root = NULL THEN R(SetErrno(m, EINVAL), FALSE)
  ELSE LET second_node == m.node[m.root].next
           d == list_deallocate_node(m, TRUE, m.root, mode)
       IN R([d.m EXCEPT !.root = second_node], TRUE)

list_pop_back(m, hasSlot, mode) ==
  IF ~hasSlot \/ m.root = NULL THEN R(SetErrno(m, EINVAL), FALSE)
  ELSE IF m.node[m.root].next = NULL
  THEN LET d == list_deallocate_node(m, TRUE, m.root, mode) IN
       R([d.m EXCEPT !.root = d.slot], TRUE)
  ELSE LET pc == pop_back_loop(m, m.root, m.node[m.root].next)
           d == list_deallocate_node(m, TRUE, pc[2], mode)
       IN R([d.m EXCEPT !.node[pc[1]].next = NULL], TRUE)

\* list_pop_front with `*root = NULL` instead of `*root = second_node`
list_pop_front_clears_root(m, hasSlot, mode) ==
  IF ~hasSlot \/ m.root = NULL THEN R(SetErrno(m, EINVAL), FALSE)
  ELSE LET d == list_deallocate_node(m, TRUE, m.root, mode)
       IN R([d.m EXCEPT !.root = NULL], TRUE)

list_pop_front(m, hasSlot, mode) ==
  IF ~hasSlot \/ m.root = NULL THEN R(SetErrno(m, EINVAL), FALSE)
  ELSE LET second_node == m.node[m.root].next
           d == list_deallocate_node(m, TRUE, m.root, mode)
       IN R([d.m EXCEPT !.root = second_node], TRUE)

\* list_pop_by_index returning false on an empty chain without setting errno
list_pop_by_index_silent_on_empty(m, hasSlot, mode, index) ==
  IF ~hasSlot THEN R(SetErrno(m, EINVAL), FALSE)
  ELSE IF m.root = NULL THEN R(m, FALSE)
  ELSE IF index = 0 THEN list_pop_front(m, hasSlot, mode)
  ELSE LET p == list_get_by_index(m, TRUE, index - 1) IN
       IF p.ret = NULL \/ p.m.node[p.ret].next = NULL THEN R(p.m, FALSE)
       ELSE LET target_node == p.m.node[p.ret].next
                after_target_node == p.m.node[target_node].next
                d == list_deallocate_node(p.m, TRUE, target_node, mode)
            IN R([d.m EXCEPT !.node[p.ret].next = after_target_node], TRUE)

\* list_pop_by_index looking up `index` instead of `index - 1`
list_pop_by_index_off_by_one(m, hasSlot, mode, index) ==
  IF ~hasSlot \/ m.root = NULL THEN R(SetErrno(m, EINVAL), FALSE)
  ELSE IF index = 0 THEN list_pop_front(m, hasSlot, mode)
  ELSE LET p == list_get_by_index(m, TRUE, index) IN
       IF p.ret = NULL \/ p.m.node[p.ret].next = NULL THEN R(p.m, FALSE)
       ELSE LET target_node == p.m.node[p.ret].next
                after_target_node == p.m.node[target_node].next
                d == list_deallocate_node(p.m, TRUE, target_node, mode)
            IN R([d.m EXCEPT !.node[p.ret].next = after_target_node], TRUE)

list_pop_by_index(m, hasSlot, mode, index) ==
  IF ~hasSlot \/ m.root = NULL THEN R(SetErrno(m, EINVAL), FALSE)
  ELSE IF index = 0 THEN list_pop_front(m, hasSlot, mode)
  ELSE LET p == list_get_by_index(m, TRUE, index - 1) IN
       IF p.ret = NULL \/ p.m.node[p.ret].next = NULL THEN R(p.m, FALSE)
       ELSE LET target_node == p.m.node[p.ret].next
                after_target_node == p.m.node[target_node].next
                d == list_deallocate_node(p.m, TRUE, target_node, mode)
            IN R([d.m EXCEPT !.node[p.ret].next = after_target_node], TRUE)

(***************************************************************************)
(* Functions that work with the whole list                                 *)
(***************************************************************************)
RECURSIVE deallocate_loop(_, _)
deallocate_loop(m, mode) ==
  LET p == list_pop_front(m, TRUE, mode) IN
  IF p.ret THEN deallocate_loop(p.m, mode) ELSE p.m

\* list_deallocate popping the front node once instead of in a loop
list_deallocate_one_pop(m, hasSlot, mode) ==
  IF ~hasSlot THEN R(SetErrno(m, EINVAL), FALSE)
  ELSE R(list_pop_front(m, TRUE, mode).m, TRUE)

list_deallocate(m, hasSlot, mode) ==
  IF ~hasSlot THEN R(SetErrno(m, EINVAL), FALSE)
  ELSE R(deallocate_loop(m, mode), TRUE)

\* -- list_convert_strings_to_int_ptrs --
Digits == <<"0", "1", "2", "3", "4", "5", "6", "7", "8", "9">>
isdigit(c) == \E i \in 1..Len(Digits) : Digits[i] = c
DigitValue(c) == (CHOOSE i \in 1..Len(Digits) : Digits[i] = c) - 1
isspace(c) == c \in {" ", "\t", "\n", "\r"}

RECURSIVE SkipSpaces(_)
SkipSpaces(s) ==
  IF s # <<>> /\ isspace(s[1]) THEN SkipSpaces(Tail(s)) ELSE s

RECURSIVE AtoiDigits(_, _)
AtoiDigits(s, acc) ==
  IF s # <<>> /\ isdigit(s[1])
  THEN AtoiDigits(Tail(s), 10 * acc + DigitValue(s[1]))
  ELSE acc

\* atoi: optional white space, an optional sign, then the digits up to the first
\* character that is not one; 0 when there are no digits.  (The texts of the model
\* are short: no value leaves the range of int.)
atoi(s) ==
  LET t == SkipSpaces(s)
      signed == t # <<>> /\ t[1] \in {"-", "+"}
      v == AtoiDigits(IF signed THEN Tail(t) ELSE t, 0)
  IN IF signed /\ t[1] = "-" THEN -v ELSE v

\* the first n characters of a string, or all of it when it ends before
StrPrefix(s, n) == SubSeq(s, 1, IF Len(s) < n THEN Len(s) ELSE n)

\* strncmp: 0 exactly when the strings agree on their first n characters (the
\* terminator counts as a character that ends the comparison)
strncmp(a, b, n) == IF StrPrefix(a, n) = StrPrefix(b, n) THEN 0 ELSE 1

\* the loop of list_convert_strings_to_int_ptrs comparing with strcmp
RECURSIVE convert_loop_strcmp(_, _, _, _, _)
convert_loop_strcmp(m, i, result, k, fail) ==
  IF i = NULL THEN R(m, result)
  ELSE IF k = fail THEN R(SetErrno(m, ENOMEM), FALSE)
  ELSE LET m1 == malloc_data(m, i)
           integer_string == m1.node[i].data.val
           integer == atoi(integer_string)
           bad == integer = 0 /\ strcmp(integer_string, <<"0">>) # 0
           m2 == IF bad THEN SetErrno(m1, EINVAL) ELSE m1
           m3 == free_data(m2, i)
           m4 == [m3 EXCEPT !.node[i].data = IntData(integer)]
       IN convert_loop_strcmp(m4, m4.node[i].next, result /\ ~bad, k + 1, fail)

\* the loop of list_convert_strings_to_int_ptrs returning at the first bad string
RECURSIVE convert_loop_stops_at_bad(_, _, _, _, _)
convert_loop_stops_at_bad(m, i, result, k, fail) ==
  IF i = NULL THEN R(m, result)
  ELSE IF k = fail THEN R(SetErrno(m, ENOMEM), FALSE)
  ELSE LET m1 == malloc_data(m, i)
           integer_string == m1.node[i].data.val
           integer == atoi(integer_string)
           bad == integer = 0 /\ strncmp(integer_string, <<"0">>, 1) # 0
           m2 == IF bad THEN SetErrno(m1, EINVAL) ELSE m1
           m3 == free_data(m2, i)
           m4 == [m3 EXCEPT !.node[i].data = IntData(integer)]
       IN IF bad THEN R(m4, FALSE)
          ELSE convert_loop_stops_at_bad(m4, m4.node[i].next, result, k + 1, fail)

\* the loop going on to the next node after a failed allocation
RECURSIVE convert_loop_skips_on_nomem(_, _, _, _, _)
convert_loop_skips_on_nomem(m, i, result, k, fail) ==
  IF i = NULL THEN R(m, result)
  ELSE IF k = fail
  THEN convert_loop_skips_on_nomem(SetErrno(m, ENOMEM), m.node[i].next, FALSE, k + 1, fail)
  ELSE LET m1 == malloc_data(m, i)
           integer_string == m1.node[i].data.val
           integer == atoi(integer_string)
           bad == integer = 0 /\ strncmp(integer_string, <<"0">>, 1) # 0
           m2 == IF bad THEN SetErrno(m1, EINVAL) ELSE m1
           m3 == free_data(m2, i)
           m4 == [m3 EXCEPT !.node[i].data = IntData(integer)]
       IN convert_loop_skips_on_nomem(m4, m4.node[i].next, result /\ ~bad, k + 1, fail)


\* the loop over the nodes; k counts the allocations of the call and `fail` is the
\* one that fails (0: none)
RECURSIVE convert_loop(_, _, _, _, _)
convert_loop(m, i, result, k, fail) ==
  IF i = NULL THEN R(m, result)
  ELSE IF k = fail THEN R(SetErrno(m, ENOMEM), FALSE)
  ELSE LET m1 == malloc_data(m, i)
           integer_string == m1.node[i].data.val
           integer == atoi(integer_string)
           bad == integer = 0 /\ strncmp(integer_string, <<"0">>, 1) # 0
           m2 == IF bad THEN SetErrno(m1, EINVAL) ELSE m1
           m3 == free_data(m2, i)
           m4 == [m3 EXCEPT !.node[i].data = IntData(integer)]
       IN convert_loop(m4, m4.node[i].next, result /\ ~bad, k + 1, fail)

list_convert_strings_to_int_ptrs(m, hasSlot, fail) ==
  IF ~hasSlot \/ m.root = NULL THEN R(SetErrno(m, EINVAL), FALSE)
  ELSE convert_loop(m, m.root, TRUE, 1, fail)

\* the inner loop going on to the last node equal to i
RECURSIVE remove_duplicate_inner_last(_, _, _, _)
remove_duplicate_inner_last(m, j, temp, i_as_int) ==
  IF j = NULL THEN -1
  ELSE LET later == remove_duplicate_inner_last(m, m.node[j].next, temp + 1, i_as_int) IN
       IF later # -1 THEN later
       ELSE IF i_as_int # m.node[j].data.val THEN -1
       ELSE temp


\* -- duplicate removal --
\* the inner loop: the index of the first node from j on that holds i_as_int,
\* or -1 when the loop ends without a match
RECURSIVE remove_duplicate_inner(_, _, _, _)
remove_duplicate_inner(m, j, temp, i_as_int) ==
  IF j = NULL THEN -1
  ELSE IF i_as_int # m.node[j].data.val
  THEN remove_duplicate_inner(m, m.node[j].next, temp + 1, i_as_int)
  ELSE temp

\* the outer loop with `temp = index` instead of `temp = index + 1`
RECURSIVE remove_duplicate_outer_temp_off(_, _, _, _)
remove_duplicate_outer_temp_off(m, mode, i, index) ==
  IF i = NULL THEN R(m, FALSE)
  ELSE LET temp == remove_duplicate_inner(m, m.node[i].next, index,
                                          m.node[i].data.val) IN
       IF temp # -1 THEN R(list_pop_by_index(m, TRUE, mode, temp).m, TRUE)
       ELSE remove_duplicate_outer_temp_off(m, mode, m.node[i].next, index + 1)

\* the outer loop releasing both nodes of the pair it found
RECURSIVE remove_duplicate_outer_pops_pair(_, _, _, _)
remove_duplicate_outer_pops_pair(m, mode, i, index) ==
  IF i = NULL THEN R(m, FALSE)
  ELSE LET temp == remove_duplicate_inner(m, m.node[i].next, index + 1,
                                          m.node[i].data.val) IN
       IF temp # -1
       THEN R(list_pop_by_index(list_pop_by_index(m, TRUE, mode, temp).m,
                                TRUE, mode, index).m, TRUE)
       ELSE remove_duplicate_outer_pops_pair(m, mode, m.node[i].next, index + 1)


RECURSIVE remove_duplicate_outer(_, _, _, _)
remove_duplicate_outer(m, mode, i, index) ==
  IF i = NULL THEN R(m, FALSE)
  ELSE LET temp == remove_duplicate_inner(m, m.node[i].next, index + 1,
                                          m.node[i].data.val) IN
       IF temp # -1 THEN R(list_pop_by_index(m, TRUE, mode, temp).m, TRUE)
       ELSE remove_duplicate_outer(m, mode, m.node[i].next, index + 1)

list_remove_duplicate_int(m, hasSlot, mode) ==
  IF ~hasSlot \/ m.root = NULL THEN R(SetErrno(m, EINVAL), FALSE)
  ELSE remove_duplicate_outer(m, mode, m.root, 0)

list_remove_duplicate_any_kind(m, hasSlot, mode, data_type) ==
  list_remove_duplicate_int(m, hasSlot, mode)

\* (the default branch also writes the message of list_print_error to stderr;
\* the diagnostic stream is not part of the state)
list_remove_duplicate(m, hasSlot, mode, data_type) ==
  IF data_type = INT THEN list_remove_duplicate_int(m, hasSlot, mode)
  ELSE R(SetErrno(m, ECANCELED), FALSE)

RECURSIVE remove_duplicates_loop(_, _, _, _)
remove_duplicates_loop(m, hasSlot, mode, data_type) ==
  LET r == list_remove_duplicate(m, hasSlot, mode, data_type) IN
  IF r.ret THEN remove_duplicates_loop(r.m, hasSlot, mode, data_type)
  ELSE r.m

list_remove_duplicates(m, hasSlot, mode, data_type) ==
  LET m1 == remove_duplicates_loop(m, hasSlot, mode, data_type) IN
  R(m1, m1.errno = ENONE)

(***************************************************************************)
(* IO functions                                                            *)
(***************************************************************************)
\* the position of the first newline of s, 0 when it has none
RECURSIVE NewlineAt(_, _)
NewlineAt(s, i) ==
  IF i > Len(s) THEN 0
  ELSE IF s[i] = "\n" THEN i
  ELSE NewlineAt(s, i + 1)

\* fgets(buffer, n, stdin) for n >= 1: at most n - 1 characters, up to and including
\* the first newline.  With nothing left to read it returns NULL (`ok` is FALSE);
\* with n = 1 it stores the empty string without reading.
\* fgets filling the whole buffer with characters
fgets_full_buffer(in, n) ==
  LET nl == NewlineAt(in, 1)
      most == IF Len(in) < n THEN Len(in) ELSE n
      len == IF nl # 0 /\ nl <= most THEN nl ELSE most
  IN [ok |-> n = 1 \/ in # <<>>,
      line |-> SubSeq(in, 1, len),
      rest |-> SubSeq(in, len + 1, Len(in))]

fgets(in, n) ==
  LET nl == NewlineAt(in, 1)
      most == IF Len(in) < n - 1 THEN Len(in) ELSE n - 1
      len == IF nl # 0 /\ nl <= most THEN nl ELSE most
  IN [ok |-> n = 1 \/ in # <<>>,
      line |-> SubSeq(in, 1, len),
      rest |-> SubSeq(in, len + 1, Len(in))]

\* node_ok, buffer_ok: whether the two allocations of the call succeed
list_read_line_as_string(m, buffer_size, node_ok, buffer_ok) ==
  IF buffer_size = 0 THEN R(SetErrno(m, EINVAL), NULL)
  ELSE LET a == list_allocate_node(m, NullData, node_ok) IN
       IF a.ret = NULL THEN R(SetErrno(a.m, ENOMEM), NULL)
       ELSE IF ~buffer_ok
       THEN R(list_deallocate_node(SetErrno(a.m, ENOMEM), TRUE, a.ret, WEAK).m, NULL)
       ELSE LET m1 == malloc_data(a.m, a.ret)
                g == fgets(m1.stdin, buffer_size)
            IN IF ~g.ok
               THEN LET d == list_deallocate_node(SetErrno(m1, EIO), TRUE, a.ret, WEAK)
                    IN R(free_data(d.m, a.ret), NULL)
               ELSE R([m1 EXCEPT !.stdin = g.rest,
                                 !.node[a.ret].data = StrData(g.line)], a.ret)

\* list_read_line_as_string of the second copy of the library: its failure paths
\* return without releasing what the call allocated
list_read_line_as_string_second_copy(m, buffer_size, node_ok, buffer_ok) ==
  IF buffer_size = 0 THEN R(SetErrno(m, EINVAL), NULL)
  ELSE LET a == list_allocate_node_second_copy(m, NullData, node_ok) IN
       IF a.ret = NULL THEN R(SetErrno(a.m, ENOMEM), NULL)
       ELSE IF ~buffer_ok THEN R(SetErrno(a.m, ENOMEM), NULL)
       ELSE LET m1 == malloc_data(a.m, a.ret)
                g == fgets(m1.stdin, buffer_size)
            IN IF ~g.ok THEN R(SetErrno(m1, EIO), NULL)
               ELSE R([m1 EXCEPT !.stdin = g.rest,
                                 !.node[a.ret].data = StrData(g.line)], a.ret)


\* `fail` names the allocation that fails: of the node or of the buffer of the
\* line-th line (line 0: none fails)
NodeOk(fail, line) == ~(fail.line = line /\ fail.what = "node")
BufferOk(fail, line) == ~(fail.line = line /\ fail.what = "buffer")

\* list_deallocate(&result, mode) on the local variable `result`
deallocate_result(m, result, mode) ==
  [list_deallocate([m EXCEPT !.root = result], TRUE, mode).m EXCEPT !.root = m.root]

\* the loop of list_read_lines_as_string releasing the lines in WEAK mode
RECURSIVE read_lines_loop_weak_release(_, _, _, _, _, _, _)
read_lines_loop_weak_release(m, buffer_size, count, fail, result, lst, i) ==
  IF i >= count - 1 THEN R(m, result)
  ELSE LET r == list_read_line_as_string(m, buffer_size, NodeOk(fail, i + 2),
                                         BufferOk(fail, i + 2))
           m1 == [r.m EXCEPT !.node[lst].next = r.ret]
       IN IF r.ret # NULL
          THEN read_lines_loop_weak_release(m1, buffer_size, count, fail, result,
                                            r.ret, i + 1)
          ELSE R(SetErrno(deallocate_result(m1, result, WEAK), ENOMEM), NULL)

\* the loop over the lines after the first; `lst` is the local `last`
RECURSIVE read_lines_loop(_, _, _, _, _, _, _)
read_lines_loop(m, buffer_size, count, fail, result, lst, i) ==
  IF i >= count - 1 THEN R(m, result)
  ELSE LET r == list_read_line_as_string(m, buffer_size, NodeOk(fail, i + 2),
                                         BufferOk(fail, i + 2))
           m1 == [r.m EXCEPT !.node[lst].next = r.ret]
       IN IF r.ret # NULL
          THEN read_lines_loop(m1, buffer_size, count, fail, result, r.ret, i + 1)
          ELSE R(SetErrno(deallocate_result(m1, result, STRONG), ENOMEM), NULL)

list_read_lines_as_string(m, buffer_size, count, fail) ==
  IF count = 0 THEN R(SetErrno(m, EINVAL), NULL)
  ELSE LET r == list_read_line_as_string(m, buffer_size, NodeOk(fail, 1),
                                         BufferOk(fail, 1))
       IN IF r.ret = NULL THEN R(r.m, NULL)
          ELSE read_lines_loop(r.m, buffer_size, count, fail, r.ret, r.ret, 0)

(***************************************************************************)
(* Printing.  `printed` gets one entry for each node rendered: the node,   *)
(* the characters printf writes for its value and the `next` pointer shown.*)
(* The braces, tabs and line ends around the entries are left out, and     *)
(* printf is taken to succeed and to leave errno alone.                    *)
(***************************************************************************)
RECURSIVE DecimalDigits(_)
DecimalDigits(n) ==
  IF n < 10 THEN <<Digits[n + 1]>>
  ELSE DecimalDigits(n \div 10) \o <<Digits[(n % 10) + 1]>>

\* what printf writes for %d
printf_d(n) == IF n < 0 THEN <<"-">> \o DecimalDigits(-n) ELSE DecimalDigits(n)

\* the loop of list_print_node_string: a newline is written as [NL]
RECURSIVE print_string_loop(_)
print_string_loop(str) ==
  IF str = <<>> THEN <<>>
  ELSE (IF Head(str) = "\n" THEN <<"[", "N", "L", "]">> ELSE <<Head(str)>>)
         \o print_string_loop(Tail(str))

Rendered(m, i, value) ==
  [m EXCEPT !.printed = Append(@, [node |-> i, value |-> value,
                                    next |-> m.node[i].next])]

\* hasNode: whether `List **node` is not NULL; i is the node it points to
\* (the quotation marks printed around a string are left out)
list_print_node_string(m, hasNode, i) ==
  IF ~hasNode THEN R(SetErrno(m, EINVAL), FALSE)
  ELSE IF m.node[i].data.kind = "null"
  THEN R(Rendered(m, i, <<"(", "n", "u", "l", "l", ")">>), TRUE)
  ELSE R(Rendered(m, i, print_string_loop(m.node[i].data.val)), TRUE)

\* the FLOAT case is taken on float payloads, which the model does not hold: its
\* text is left as the conversion
list_print_node(m, hasNode, i, data_type) ==
  IF ~hasNode THEN R(SetErrno(m, EINVAL), FALSE)
  ELSE IF data_type = STRING_TYPE THEN list_print_node_string(m, hasNode, i)
  ELSE LET m1 == CASE data_type = INT -> Rendered(m, i, printf_d(m.node[i].data.val))
                   [] data_type = FLOAT -> Rendered(m, i, <<"%", "f">>)
                   [] data_type = CHAR -> Rendered(m, i, <<Head(m.node[i].data.val)>>)
                   [] OTHER -> SetErrno(m, ECANCELED)
       IN R(m1, m1.errno = ENONE)

RECURSIVE print_loop(_, _, _)
print_loop(m, i, data_type) ==
  IF i = NULL THEN R(m, TRUE)
  ELSE LET r == list_print_node(m, TRUE, i, data_type) IN
       IF ~r.ret THEN R(r.m, FALSE)
       ELSE print_loop(r.m, m.node[i].next, data_type)

list_print(m, hasSlot, data_type) ==
  IF ~hasSlot THEN R(SetErrno(m, EINVAL), FALSE)
  ELSE print_loop(m, m.root, data_type)

(***************************************************************************)
(* The record of the last completed call                                   *)
(***************************************************************************)
NoCall ==
  [op |-> "none", hasSlot |-> TRUE, data |-> NullData, index |-> 0,
   mode |-> WEAK, type |-> INT, ok |-> TRUE]

Call(op, hasSlot, data, index, mode, type, ok) ==
  [op |-> op, hasSlot |-> hasSlot, data |-> data, index |-> index,
   mode |-> mode, type |-> type, ok |-> ok]

Done(call, r, retNode) ==
  [call |-> call, ret |-> r.ret, retNode |-> retNode,
   out |-> r.m.out, printed |-> r.m.printed,
   allocs |-> r.m.allocs, frees |-> r.m.frees,
   pallocs |-> r.m.pallocs, pfrees |-> r.m.pfrees]

\* `hist` is the notebook of the scenario specifications below; the calls of the
\* main specification leave it alone
CommitCore(call, r, retNode) ==
  /\ node' = r.m.node
  /\ root' = r.m.root
  /\ errno' = r.m.errno
  /\ undefined' = r.m.undefined
  /\ heapFault' = r.m.fault
  /\ stdin' = r.m.stdin
  /\ last' = Done(call, r, retNode)

Commit(call, r, retNode) ==
  /\ CommitCore(call, r, retNode)
  /\ UNCHANGED hist

\* a call that allocates can only be explored while the model has a free cell
CanAlloc(ok) == ok => FreeCells(Mem) # {}

NoLast ==
  [call |-> NoCall, ret |-> FALSE, retNode |-> NULL, out |-> 0, printed |-> <<>>,
   allocs |-> <<>>, frees |-> <<>>, pallocs |-> <<>>, pfrees |-> <<>>]

Init ==
  /\ node = [a \in Addr |-> FreeNode]
  /\ root = NULL
  /\ errno = ENONE
  /\ undefined = "none"
  /\ heapFault = FALSE
  /\ stdin = <<>>
  /\ last = NoLast
  /\ hist = <<>>

RetNode(r) == R(r.m, r.ret # NULL)

\* a returned number is recorded in `out`
RetNumber(r) == R([r.m EXCEPT !.out = r.ret], r.ret # 0)

\* The inputs of a call: with a root slot every combination of the other arguments;
\* without one (a NULL `List **`) one call, since the first check of every function
\* returns before another argument is looked at.

PushBack ==
  /\ undefined = "none"
  /\ \E v \in Values, ok \in BOOLEAN :
       /\ CanAlloc(ok)
       /\ \E hasSlot \in (IF v = 1 /\ ok THEN BOOLEAN ELSE {TRUE}) :
            Commit(Call("push_back", hasSlot, IntData(v), 0, WEAK, INT, ok),
                   list_push_back(Mem, hasSlot, IntData(v), ok), NULL)

PushFront ==
  /\ undefined = "none"
  /\ \E v \in Values, ok \in BOOLEAN :
       /\ CanAlloc(ok)
       /\ \E hasSlot \in (IF v = 1 /\ ok THEN BOOLEAN ELSE {TRUE}) :
            Commit(Call("push_front", hasSlot, IntData(v), 0, WEAK, INT, ok),
                   list_push_front(Mem, hasSlot, IntData(v), ok), NULL)

PushByIndex ==
  /\ undefined = "none"
  /\ \E v \in Values, index \in Indexes, ok \in BOOLEAN :
       /\ CanAlloc(ok)
       /\ \E hasSlot \in (IF v = 1 /\ ok /\ index = 0 THEN BOOLEAN ELSE {TRUE}) :
            \E r \in list_push_by_index(Mem, hasSlot, IntData(v), index, ok) :
              Commit(Call("push_by_index", hasSlot, IntData(v), index, WEAK, INT, ok),
                     r, NULL)

PopBack ==
  /\ undefined = "none"
  /\ \E mode \in Modes :
       \E hasSlot \in (IF mode = WEAK THEN BOOLEAN ELSE {TRUE}) :
         Commit(Call("pop_back", hasSlot, NullData, 0, mode, INT, TRUE),
                list_pop_back(Mem, hasSlot, mode), NULL)

PopFront ==
  /\ undefined = "none"
  /\ \E mode \in Modes :
       \E hasSlot \in (IF mode = WEAK THEN BOOLEAN ELSE {TRUE}) :
         Commit(Call("pop_front", hasSlot, NullData, 0, mode, INT, TRUE),
                list_pop_front(Mem, hasSlot, mode), NULL)

PopByIndex ==
  /\ undefined = "none"
  /\ \E mode \in Modes, index \in Indexes :
       \E hasSlot \in (IF mode = WEAK /\ index = 0 THEN BOOLEAN ELSE {TRUE}) :
         Commit(Call("pop_by_index", hasSlot, NullData, index, mode, INT, TRUE),
                list_pop_by_index(Mem, hasSlot, mode, index), NULL)

Deallocate ==
  /\ undefined = "none"
  /\ \E mode \in Modes :
       \E hasSlot \in (IF mode = WEAK THEN BOOLEAN ELSE {TRUE}) :
         Commit(Call("deallocate", hasSlot, NullData, 0, mode, INT, TRUE),
                list_deallocate(Mem, hasSlot, mode), NULL)

RemoveDuplicateInt ==
  /\ undefined = "none"
  /\ \E mode \in Modes :
       \E hasSlot \in (IF mode = WEAK THEN BOOLEAN ELSE {TRUE}) :
         Commit(Call("remove_duplicate_int", hasSlot, NullData, 0, mode, INT, TRUE),
                list_remove_duplicate_int(Mem, hasSlot, mode), NULL)

RemoveDuplicate ==
  /\ undefined = "none"
  /\ \E mode \in Modes, type \in DataTypes :
       \E hasSlot \in (IF mode = WEAK /\ type = INT THEN BOOLEAN ELSE {TRUE}) :
         Commit(Call("remove_duplicate", hasSlot, NullData, 0, mode, type, TRUE),
                list_remove_duplicate(Mem, hasSlot, mode, type), NULL)

RemoveDuplicates ==
  /\ undefined = "none"
  /\ \E mode \in Modes, type \in DataTypes :
       \E hasSlot \in (IF mode = WEAK /\ type = INT THEN BOOLEAN ELSE {TRUE}) :
         Commit(Call("remove_duplicates", hasSlot, NullData, 0, mode, type, TRUE),
                list_remove_duplicates(Mem, hasSlot, mode, type), NULL)

GetByIndex ==
  /\ undefined = "none"
  /\ \E index \in Indexes :
       \E hasSlot \in (IF index = 0 THEN BOOLEAN ELSE {TRUE}) :
         LET r == list_get_by_index(Mem, hasSlot, index) IN
         Commit(Call("get_by_index", hasSlot, NullData, index, WEAK, INT, TRUE),
                RetNode(r), r.ret)

GetLast ==
  /\ undefined = "none"
  /\ \E hasSlot \in BOOLEAN :
       LET r == list_get_last(Mem, hasSlot) IN
       Commit(Call("get_last", hasSlot, NullData, 0, WEAK, INT, TRUE),
              RetNode(r), r.ret)

Next ==
  \/ PushBack
  \/ PushFront
  \/ PushByIndex
  \/ PopBack
  \/ PopFront
  \/ PopByIndex
  \/ Deallocate
  \/ RemoveDuplicateInt
  \/ RemoveDuplicate
  \/ RemoveDuplicates
  \/ GetByIndex
  \/ GetLast

Spec == Init /\ [][Next]_vars

(***************************************************************************)
(* Duplicate removal on longer chains: the chain of nodes 1..n, as n        *)
(* appending calls on an empty chain leave it, with every assignment of    *)
(* integers to the nodes.                                                  *)
(***************************************************************************)
ChainOf(cells, vals) ==
  [a \in cells |->
     IF a <= Len(vals)
     THEN [live |-> TRUE, data |-> IntData(vals[a]),
           next |-> IF a < Len(vals) THEN a + 1 ELSE NULL]
     ELSE FreeNode]

InitDedup ==
  /\ \E n \in 0..DedupLen : \E vals \in [1..n -> MoreValues] :
       /\ node = ChainOf(1..DedupLen, vals)
       /\ root = IF n = 0 THEN NULL ELSE 1
  /\ errno \in {ENONE, EINVAL}
  /\ undefined = "none"
  /\ heapFault = FALSE
  /\ stdin = <<>>
  /\ last = NoLast
  /\ hist = [chain |-> <<>>, data |-> <<>>]

DedupRemoveDuplicates ==
  /\ \E mode \in Modes, type \in DataTypes :
       \E hasSlot \in (IF mode = WEAK /\ type = INT THEN BOOLEAN ELSE {TRUE}) :
         CommitCore(Call("remove_duplicates", hasSlot, NullData, 0, mode, type, TRUE),
                    list_remove_duplicates(Mem, hasSlot, mode, type), NULL)
  /\ hist' = [chain |-> Chain(node, root), data |-> ChainData(node, root)]

NextDedup ==
  \/ DedupRemoveDuplicates

SpecDedup == InitDedup /\ [][NextDedup]_vars

(***************************************************************************)
(* Extremum search on chains of 1..n nodes holding negative and positive   *)
(* ints.  `before` is what the caller's int holds when the call is made.   *)
(***************************************************************************)
ExtremumValues == {-4, 1, 4, 9}

InitExtremum ==
  /\ \E n \in 0..DedupLen : \E vals \in [1..n -> ExtremumValues] :
       /\ node = ChainOf(1..DedupLen, vals)
       /\ root = IF n = 0 THEN NULL ELSE 1
  /\ errno \in {ENONE, EINVAL}
  /\ undefined = "none"
  /\ heapFault = FALSE
  /\ stdin = <<>>
  /\ last = NoLast
  /\ hist = <<>>

GetMaxInt ==
  \E hasSlot, hasMax \in BOOLEAN, before \in {7} :
    Commit(Call("get_max_int", hasSlot, NullData, before, WEAK, INT, hasMax),
           list_get_max_int([Mem EXCEPT !.out = before], hasSlot, hasMax), NULL)

GetMinInt ==
  \E hasSlot, hasMin \in BOOLEAN, before \in {7} :
    Commit(Call("get_min_int", hasSlot, NullData, before, WEAK, INT, hasMin),
           list_get_min_int([Mem EXCEPT !.out = before], hasSlot, hasMin), NULL)

\* the calls leave the chain alone: one call on each chain covers them all
NextExtremum ==
  \/ (last = NoLast /\ GetMaxInt)
  \/ (last = NoLast /\ GetMinInt)

SpecExtremum == InitExtremum /\ [][NextExtremum]_vars

(***************************************************************************)
(* list_remove_duplicates taken one call of list_remove_duplicate at a     *)
(* time.  hist.pc is the position in the function, hist.removed the value  *)
(* of `removed`, hist.length the length of the chain the function was      *)
(* called on and hist.removals the calls that returned true so far.        *)
(***************************************************************************)
InitDedupLoop ==
  /\ \E n \in 0..DedupLen : \E vals \in [1..n -> MoreValues] :
       /\ node = ChainOf(1..DedupLen, vals)
       /\ root = IF n = 0 THEN NULL ELSE 1
       /\ \E mode \in Modes, hasSlot \in BOOLEAN :
            hist = [pc |-> "call", mode |-> mode, hasSlot |-> hasSlot, removed |-> FALSE,
                    length |-> n, removals |-> 0]
  /\ errno \in {ENONE, EINVAL}
  /\ undefined = "none"
  /\ heapFault = FALSE
  /\ stdin = <<>>
  /\ last = NoLast

\* one `removed = list_remove_duplicate(root, mode, data_type)`
DedupLoopCall ==
  LET r == list_remove_duplicate(Mem, hist.hasSlot, hist.mode, INT) IN
  /\ CommitCore(Call("remove_duplicate", hist.hasSlot, NullData, 0, hist.mode, INT, TRUE),
                r, NULL)
  /\ hist' = [hist EXCEPT !.pc = "while", !.removed = r.ret,
                          !.removals = @ + (IF r.ret THEN 1 ELSE 0)]

\* bool removed = list_remove_duplicate(root, mode, data_type);
RemoveDuplicatesFirst ==
  /\ hist.pc = "call"
  /\ DedupLoopCall

\* while (removed) { removed = list_remove_duplicate(root, mode, data_type); }
RemoveDuplicatesAgain ==
  /\ hist.pc = "while"
  /\ hist.removed
  /\ DedupLoopCall

\* return (errno == 0);
RemoveDuplicatesReturn ==
  /\ hist.pc = "while"
  /\ ~hist.removed
  /\ CommitCore(Call("remove_duplicates", hist.hasSlot, NullData, 0, hist.mode, INT, TRUE),
                R(Mem, errno = ENONE), NULL)
  /\ hist' = [hist EXCEPT !.pc = "done"]

NextDedupLoop ==
  \/ RemoveDuplicatesFirst
  \/ RemoveDuplicatesAgain
  \/ RemoveDuplicatesReturn

SpecDedupLoop == InitDedupLoop /\ [][NextDedupLoop]_vars

(***************************************************************************)
(* Scenario specifications.  Each starts from a chain the main             *)
(* specification can build: any sequence of distinct cells linked in       *)
(* order, any payloads, errno as a successful or a failed call leaves it.  *)
(***************************************************************************)
Layouts ==
  UNION {{c \in [1..k -> Addr] : \A i, j \in 1..k : i # j => c[i] # c[j]} :
           k \in 0..MaxNodes}

HeapOf(c, d) ==
  [a \in Addr |->
     IF \E i \in 1..Len(c) : c[i] = a
     THEN LET i == CHOOSE i \in 1..Len(c) : c[i] = a
          IN [live |-> TRUE, data |-> d[i],
              next |-> IF i < Len(c) THEN c[i + 1] ELSE NULL]
     ELSE FreeNode]

InitHeap(payloads) ==
  /\ \E c \in Layouts : \E d \in [1..Len(c) -> payloads] :
       /\ node = HeapOf(c, d)
       /\ root = IF Len(c) = 0 THEN NULL ELSE c[1]
  /\ errno \in {ENONE, EINVAL}
  /\ undefined = "none"
  /\ heapFault = FALSE
  /\ stdin = <<>>
  /\ last = NoLast

IntPayloads == {IntData(v) : v \in Values}

\* -- releasing nodes whose payload handle may be NULL --
InitRelease ==
  /\ InitHeap(IntPayloads \cup {NullData})
  /\ hist = <<>>

\* the caller releases the node its slot holds with list_deallocate_node
DeallocateNode ==
  /\ \E mode \in Modes :
       \E hasSlot \in (IF mode = WEAK THEN BOOLEAN ELSE {TRUE}) :
         LET d == list_deallocate_node(Mem, hasSlot, root, mode) IN
         Commit(Call("deallocate_node", hasSlot, NullData, 0, mode, INT, TRUE),
                R([d.m EXCEPT !.root = d.slot], d.ret), NULL)

\* list_remove_duplicate_int reads every payload as an int
AllInts == \A i \in 1..Len(Chain(node, root)) : ChainData(node, root)[i].kind = "int"

NextRelease ==
  \/ DeallocateNode
  \/ PopFront
  \/ PopBack
  \/ PopByIndex
  \/ Deallocate
  \/ (AllInts /\ RemoveDuplicateInt)

SpecRelease == InitRelease /\ [][NextRelease]_vars

\* -- list_push_back, then list_pop_back --
InitPushPop ==
  /\ InitHeap(IntPayloads)
  /\ hist = [pc |-> "start", chain |-> <<>>, data |-> <<>>,
             pushOk |-> FALSE, pushRet |-> FALSE]

PushPopPush ==
  /\ hist.pc = "start"
  /\ \E v \in Values, ok \in BOOLEAN :
       /\ CanAlloc(ok)
       /\ LET r == list_push_back(Mem, TRUE, IntData(v), ok) IN
          /\ CommitCore(Call("push_back", TRUE, IntData(v), 0, WEAK, INT, ok), r, NULL)
          /\ hist' = [pc |-> "pushed", chain |-> Chain(node, root),
                      data |-> ChainData(node, root),
                      pushOk |-> ok, pushRet |-> r.ret]

PushPopPop ==
  /\ hist.pc = "pushed"
  /\ \E mode \in Modes :
       CommitCore(Call("pop_back", TRUE, NullData, 0, mode, INT, TRUE),
                  list_pop_back(Mem, TRUE, mode), NULL)
  /\ hist' = [hist EXCEPT !.pc = "popped"]

NextPushPop ==
  \/ PushPopPush
  \/ PushPopPop

SpecPushPop == InitPushPop /\ [][NextPushPop]_vars

\* -- a run of list_push_front calls --
InitPushFront ==
  /\ InitHeap({IntData(v) : v \in MoreValues})
  /\ hist = [chain |-> Chain(node, root), data |-> ChainData(node, root),
             pushed |-> <<>>, nodes |-> <<>>]

PushFrontPush ==
  \E v \in MoreValues, ok \in BOOLEAN :
    /\ CanAlloc(ok)
    /\ \E hasSlot \in (IF v = 1 /\ ok THEN BOOLEAN ELSE {TRUE}) :
         LET r == list_push_front(Mem, hasSlot, IntData(v), ok) IN
         /\ CommitCore(Call("push_front", hasSlot, IntData(v), 0, WEAK, INT, ok),
                       r, NULL)
         /\ hist' = IF r.ret
                    THEN [hist EXCEPT !.pushed = Append(@, IntData(v)),
                                      !.nodes = Append(@, r.m.root)]
                    ELSE hist

NextPushFront ==
  \/ PushFrontPush

SpecPushFront == InitPushFront /\ [][NextPushFront]_vars

\* -- searching and the outcomes that find nothing --
\* the strings of the searched chains, and one more to search for
Words == {<<"a">>, <<"a", "b">>}
MoreWords == Words \cup {<<"b">>}
StrPayloads == {StrData(w) : w \in Words}

\* the typed searches read every payload as the type they are asked for
AllStrs == \A i \in 1..Len(Chain(node, root)) : ChainData(node, root)[i].kind = "str"

InitSearch ==
  /\ (InitHeap(IntPayloads) \/ InitHeap(StrPayloads))
  /\ hist = <<>>

GetByIntegerValue ==
  /\ AllInts
  /\ \E value \in MoreValues :
       \E hasSlot \in (IF value = 1 THEN BOOLEAN ELSE {TRUE}) :
         LET r == list_get_by_integer_value(Mem, hasSlot, value) IN
         Commit(Call("get_by_integer_value", hasSlot, IntData(value), 0, WEAK, INT, TRUE),
                RetNode(r), r.ret)

GetByStringValue ==
  /\ AllStrs
  /\ \E string \in MoreWords :
       \E hasSlot \in (IF string = <<"a">> THEN BOOLEAN ELSE {TRUE}) :
         LET r == list_get_by_string_value(Mem, hasSlot, string) IN
         Commit(Call("get_by_string_value", hasSlot, StrData(string), 0, WEAK, INT, TRUE),
                RetNode(r), r.ret)

GetLength ==
  /\ undefined = "none"
  /\ \E hasSlot \in BOOLEAN :
       Commit(Call("get_length", hasSlot, NullData, 0, WEAK, INT, TRUE),
              RetNumber(list_get_length(Mem, hasSlot)), NULL)

\* the kinds of enum ListDataType the searches and removals are called with
Kinds == {INT, CHAR, FLOAT, STRING_TYPE, DOUBLE}

\* the objects a `void *value` points to; an unimplemented kind never reads it
ValuesOfKind(type) ==
  IF type = INT THEN {IntData(v) : v \in MoreValues}
  ELSE IF type = STRING_TYPE THEN {StrData(w) : w \in MoreWords}
  ELSE {IntData(1)}

\* a typed call reads every payload as the type it is asked for
ChainOfKind(type) == (type = INT => AllInts) /\ (type = STRING_TYPE => AllStrs)

GetByValue ==
  /\ undefined = "none"
  /\ \E type \in Kinds :
       /\ ChainOfKind(type)
       /\ \E value \in ValuesOfKind(type) :
            \E hasSlot \in BOOLEAN :
              LET r == list_get_by_value(Mem, hasSlot, value, type) IN
              Commit(Call("get_by_value", hasSlot, value, 0, WEAK, type, TRUE),
                     RetNode(r), r.ret)

RemoveDuplicateOfKind ==
  /\ undefined = "none"
  /\ \E mode \in Modes, type \in Kinds :
       /\ type = INT => AllInts
       /\ \E hasSlot \in (IF mode = WEAK THEN BOOLEAN ELSE {TRUE}) :
            Commit(Call("remove_duplicate", hasSlot, NullData, 0, mode, type, TRUE),
                   list_remove_duplicate(Mem, hasSlot, mode, type), NULL)

RemoveDuplicatesOfKind ==
  /\ undefined = "none"
  /\ \E mode \in Modes, type \in Kinds :
       /\ type = INT => AllInts
       /\ \E hasSlot \in (IF mode = WEAK THEN BOOLEAN ELSE {TRUE}) :
            Commit(Call("remove_duplicates", hasSlot, NullData, 0, mode, type, TRUE),
                   list_remove_duplicates(Mem, hasSlot, mode, type), NULL)


NextSearch ==
  \/ GetByIndex
  \/ GetByIntegerValue
  \/ GetByStringValue
  \/ PopByIndex
  \/ (AllInts /\ RemoveDuplicateInt)
  \/ GetLength

SpecSearch == InitSearch /\ [][NextSearch]_vars

(***************************************************************************)
(* The dispatchers called with every kind, on chains of ints and of        *)
(* strings.                                                                *)
(***************************************************************************)
NextKinds ==
  \/ GetByValue
  \/ RemoveDuplicateOfKind
  \/ RemoveDuplicatesOfKind

SpecKinds == InitSearch /\ [][NextKinds]_vars

\* -- converting a chain of strings --
\* the strings of the converted chains: numbers, text that is no number, zero as
\* "0", as a line read by fgets, with a suffix, with a prefix
Texts ==
  {<<"1", "0">>, <<"x">>, <<"3">>, <<"0">>, <<"0", "\n">>, <<"0", "x">>,
   <<"0", "0">>, <<" ", "0">>, <<"-", "1">>, <<>>}

\* the chain of nodes 1..Len(texts) holding the given strings
StrChainOf(texts) ==
  [a \in Addr |->
     IF a <= Len(texts)
     THEN [live |-> TRUE, data |-> StrData(texts[a]),
           next |-> IF a < Len(texts) THEN a + 1 ELSE NULL]
     ELSE FreeNode]

InitConvert ==
  /\ \E n \in 0..MaxNodes : \E texts \in [1..n -> Texts] :
       /\ node = StrChainOf(texts)
       /\ root = IF n = 0 THEN NULL ELSE 1
  /\ errno \in {ENONE, EINVAL}
  /\ undefined = "none"
  /\ heapFault = FALSE
  /\ stdin = <<>>
  /\ last = NoLast
  /\ hist = [chain |-> <<>>, data |-> <<>>, errno |-> ENONE]

\* `fail` chooses the allocation of the call that fails, 0 for none
Convert ==
  /\ AllStrs
  /\ \E fail \in 0..MaxNodes :
       \E hasSlot \in (IF fail = 0 THEN BOOLEAN ELSE {TRUE}) :
         CommitCore(Call("convert_strings_to_int_ptrs", hasSlot, NullData, fail,
                         WEAK, INT, fail = 0),
                    list_convert_strings_to_int_ptrs(Mem, hasSlot, fail), NULL)
  /\ hist' = [chain |-> Chain(node, root), data |-> ChainData(node, root),
              errno |-> errno]

NextConvert ==
  \/ Convert
  \/ Deallocate

SpecConvert == InitConvert /\ [][NextConvert]_vars

\* -- reading lines from the standard input --
\* the lines of the input, and what may follow the last newline
Lines == {<<"7", "\n">>, <<"1", "0", "\n">>}
Tails == {<<>>, <<"3">>}

RECURSIVE Flatten(_)
Flatten(ls) == IF ls = <<>> THEN <<>> ELSE Head(ls) \o Flatten(Tail(ls))

Streams ==
  {Flatten(ls) \o t : ls \in UNION {[1..k -> Lines] : k \in 0..MaxNodes}, t \in Tails}

NoFail == [line |-> 0, what |-> "node"]
Fails == {NoFail} \cup [line : 1..MaxNodes, what : {"node", "buffer"}]

InitRead ==
  /\ node = [a \in Addr |-> FreeNode]
  /\ root = NULL
  /\ errno \in {ENONE, EINVAL}
  /\ undefined = "none"
  /\ heapFault = FALSE
  /\ stdin \in Streams
  /\ last = NoLast
  /\ hist = [stdin |-> <<>>, buffer_size |-> 0, count |-> 0, fail |-> NoFail]

\* `List *numbers = list_read_lines_as_string(buffer_size, count)`, the first call
\* of the program
ReadLines ==
  /\ last = NoLast
  /\ root = NULL
  /\ \E buffer_size \in 0..MaxBufferSize, count \in 0..MaxNodes, fail \in Fails :
       /\ count <= Cardinality(FreeCells(Mem))
       /\ fail.line <= count
       /\ LET r == list_read_lines_as_string(Mem, buffer_size, count, fail) IN
          /\ CommitCore(Call("read_lines_as_string", TRUE, NullData, count, WEAK, INT,
                              fail = NoFail),
                        R([r.m EXCEPT !.root = r.ret], r.ret # NULL), r.ret)
          /\ hist' = [stdin |-> stdin, buffer_size |-> buffer_size, count |-> count,
                      fail |-> fail]

\* the caller's teardown of the chain of strings
ReadDeallocate ==
  /\ root # NULL
  /\ Commit(Call("deallocate", TRUE, NullData, 0, STRONG, INT, TRUE),
            list_deallocate(Mem, TRUE, STRONG), NULL)

NextRead ==
  \/ ReadLines
  \/ ReadDeallocate

SpecRead == InitRead /\ [][NextRead]_vars

\* -- printing chains of ints and of strings, between other calls --
PrintWords == Words \cup {<<"a", "\n">>}
PrintPayloads == {StrData(w) : w \in PrintWords}

\* the process starts with errno 0; the calls of the run change it
InitPrint ==
  /\ (InitHeap(IntPayloads) \/ InitHeap(PrintPayloads))
  /\ errno = ENONE
  /\ hist = <<>>

PrintKinds == {INT, CHAR, STRING_TYPE, DOUBLE}

\* INT reads the payload as an int, CHAR and STRING read it as characters
PrintableAs(type) ==
  /\ type = INT => AllInts
  /\ type \in {CHAR, STRING_TYPE} => AllStrs

\* the node printed is one of the chain: position k, counted from 1
PrintNode ==
  /\ undefined = "none"
  /\ \E type \in PrintKinds, k \in 1..Len(Chain(node, root)), hasNode \in BOOLEAN :
       /\ PrintableAs(type)
       /\ Commit(Call("print_node", hasNode, NullData, k, WEAK, type, TRUE),
                 list_print_node(Mem, hasNode, Chain(node, root)[k], type), NULL)

PrintList ==
  /\ undefined = "none"
  /\ \E type \in PrintKinds, hasSlot \in BOOLEAN :
       /\ PrintableAs(type)
       /\ Commit(Call("print", hasSlot, NullData, 0, WEAK, type, TRUE),
                 list_print(Mem, hasSlot, type), NULL)

NextPrint ==
  \/ PrintNode
  \/ PrintList
  \/ (AllInts /\ PushBack)
  \/ PopFront

SpecPrint == InitPrint /\ [][NextPrint]_vars

(***************************************************************************)
(* The two demo programs of main.c, one action for each library call of    *)
(* main.  hist.pc is the position in main, hist.rets the results of the    *)
(* calls made so far, hist.payloads the number of payload buffers the      *)
(* program has allocated and not yet freed, hist.status what main returns. *)
(***************************************************************************)
N == 5
\* N of the second demo
N2 == 2
MAX_INPUT_STRING_SIZE == 12

Programs == {1, 2}
CountOf(program) == IF program = 1 THEN N ELSE N2

\* the lines typed: two numbers, one of them twice in a stream, a word; the input
\* may end early, end without a newline, or end with a number of more digits than
\* the buffer takes
DemoLines == {<<"7", "\n">>, <<"1", "0", "\n">>, <<"x", "\n">>}
DemoTails == {<<>>, <<"3">>, <<"0", "0", "0", "0", "0", "0", "0", "0", "0", "0", "0", "7", "\n">>}
DemoStreams(n) ==
  {Flatten(ls) \o t : ls \in UNION {[1..k -> DemoLines] : k \in 0..n}, t \in DemoTails}

DemoFails(n) == {NoFail} \cup [line : 1..n, what : {"node", "buffer"}]

InitMain ==
  /\ node = [a \in 1..N |-> FreeNode]
  /\ root = NULL
  /\ errno = ENONE
  /\ undefined = "none"
  /\ heapFault = FALSE
  /\ last = NoLast
  /\ \E program \in Programs :
       /\ stdin \in DemoStreams(CountOf(program))
       /\ hist = [pc |-> "read", program |-> program, stdin |-> stdin, rets |-> <<>>,
                  payloads |-> 0, status |-> -1]

\* the bookkeeping of a call of main that returned ret and leads to pc
MainStep(r, ret, pc) ==
  hist' = [hist EXCEPT !.pc = pc,
                       !.rets = Append(@, ret),
                       !.payloads = @ + Len(r.m.pallocs) - Len(r.m.pfrees)]

\* List *numbers = list_read_lines_as_string(MAX_INPUT_STRING_SIZE, N);
MainReadLines ==
  /\ hist.pc = "read"
  /\ \E fail \in DemoFails(CountOf(hist.program)) :
       LET r == list_read_lines_as_string(Mem, MAX_INPUT_STRING_SIZE,
                                          CountOf(hist.program), fail) IN
       /\ CommitCore(Call("read_lines_as_string", TRUE, NullData, CountOf(hist.program),
                          WEAK, INT, fail = NoFail),
                     R([r.m EXCEPT !.root = r.ret], r.ret # NULL), r.ret)
       /\ MainStep(r, r.ret # NULL, "convert")

\* if (!list_convert_strings_to_int_ptrs(&numbers)) goto error;
MainConvert ==
  /\ hist.pc = "convert"
  /\ \E fail \in 0..Len(Chain(node, root)) :
       LET r == list_convert_strings_to_int_ptrs(Mem, TRUE, fail) IN
       /\ CommitCore(Call("convert_strings_to_int_ptrs", TRUE, NullData, fail, WEAK, INT,
                          fail = 0), r, NULL)
       /\ MainStep(r, r.ret, IF ~r.ret THEN "error"
                             ELSE IF hist.program = 1 THEN "remove_duplicates"
                             ELSE "get_max_int")

\* if (!list_remove_duplicates(&numbers, STRONG, INT)) goto error;
MainRemoveDuplicates ==
  /\ hist.pc = "remove_duplicates"
  /\ LET r == list_remove_duplicates(Mem, TRUE, STRONG, INT) IN
     /\ CommitCore(Call("remove_duplicates", TRUE, NullData, 0, STRONG, INT, TRUE), r, NULL)
     /\ MainStep(r, r.ret, IF r.ret THEN "get_max_int" ELSE "error")

\* int max = 0; if (!list_get_max_int(&numbers, &max)) goto error;
MainGetMaxInt ==
  /\ hist.pc = "get_max_int"
  /\ LET r == list_get_max_int([Mem EXCEPT !.out = 0], TRUE, TRUE) IN
     /\ CommitCore(Call("get_max_int", TRUE, NullData, 0, WEAK, INT, TRUE), r, NULL)
     /\ MainStep(r, r.ret, IF ~r.ret THEN "error"
                           ELSE IF hist.program = 1 THEN "get_min_int"
                           ELSE "return")

\* int min = 0; if (!list_get_min_int(&numbers, &min)) goto error;
MainGetMinInt ==
  /\ hist.pc = "get_min_int"
  /\ LET r == list_get_min_int([Mem EXCEPT !.out = 0], TRUE, TRUE) IN
     /\ CommitCore(Call("get_min_int", TRUE, NullData, 0, WEAK, INT, TRUE), r, NULL)
     /\ MainStep(r, r.ret, IF r.ret THEN "return" ELSE "error")

\* the end of main that returns `status` after list_deallocate(&numbers, STRONG)
MainTeardown(status) ==
  LET r == list_deallocate(Mem, TRUE, STRONG) IN
  /\ CommitCore(Call("deallocate", TRUE, NullData, 0, STRONG, INT, TRUE), r, NULL)
  /\ hist' = [hist EXCEPT !.pc = "done",
                          !.payloads = @ + Len(r.m.pallocs) - Len(r.m.pfrees),
                          !.status = status]

\* printf(...); list_deallocate(&numbers, STRONG); return 0;
MainReturn ==
  /\ hist.pc = "return"
  /\ MainTeardown(0)

\* the error path returning without the teardown
MainError_no_teardown ==
  /\ hist.pc = "error"
  /\ hist' = [hist EXCEPT !.pc = "done", !.status = 1]
  /\ UNCHANGED <<node, root, errno, undefined, heapFault, stdin, last>>

\* error: list_print_error(); list_deallocate(&numbers, STRONG); return 1;
MainError ==
  /\ hist.pc = "error"
  /\ MainTeardown(1)

NextMain ==
  \/ MainReadLines
  \/ MainConvert
  \/ MainRemoveDuplicates
  \/ MainGetMaxInt
  \/ MainGetMinInt
  \/ MainReturn
  \/ MainError

SpecMain == InitMain /\ [][NextMain]_vars

\* -- `List *line = list_read_line_as_string(buffer_size)` into an empty slot, in
\* each copy of the library, and the caller's teardown; call.index tells the copy --
ReadLine ==
  /\ root = NULL
  /\ \E copy \in {1, 2}, buffer_size \in 0..MaxBufferSize, node_ok, buffer_ok \in BOOLEAN :
       /\ FreeCells(Mem) # {}
       /\ LET r == IF copy = 1
                   THEN list_read_line_as_string(Mem, buffer_size, node_ok, buffer_ok)
                   ELSE list_read_line_as_string_second_copy(Mem, buffer_size, node_ok,
                                                             buffer_ok)
          IN Commit(Call("read_line_as_string", TRUE, NullData, copy, WEAK, INT,
                         node_ok /\ buffer_ok),
                    R([r.m EXCEPT !.root = r.ret], r.ret # NULL), r.ret)

NextReadLine ==
  \/ ReadLine
  \/ ReadDeallocate

SpecReadLine == InitRead /\ [][NextReadLine]_vars

\* -- list_allocate_node called by the program itself, in each copy of the library;
\* the node returned belongs to the caller and is not linked to the chain --
InitAllocate ==
  /\ InitHeap(IntPayloads)
  /\ hist = <<>>

\* call.index tells the copy called
AllocateNode ==
  /\ last = NoLast
  /\ \E copy \in {1, 2}, data \in IntPayloads \cup {NullData}, ok \in BOOLEAN :
       /\ CanAlloc(ok)
       /\ LET r == IF copy = 1 THEN list_allocate_node(Mem, data, ok)
                   ELSE list_allocate_node_second_copy(Mem, data, ok)
          IN Commit(Call("allocate_node", TRUE, data, copy, WEAK, INT, ok),
                    RetNode(r), r.ret)

NextAllocate ==
  \/ AllocateNode

SpecAllocate == InitAllocate /\ [][NextAllocate]_vars

\* -- list_push_back and list_push_front on any chain --
InitPush ==
  /\ InitHeap(IntPayloads)
  /\ hist = <<>>

NextPush ==
  \/ PushBack
  \/ PushFront

SpecPush == InitPush /\ [][NextPush]_vars

(***************************************************************************)
(* Properties                                                              *)
(***************************************************************************)
CurChain == Chain(node, root)
CurData == ChainData(node, root)

\* C1: list_push_by_index on a non-empty chain with an index greater than the length
\* (allocation succeeding) returns false without faulting, leaves the chain's nodes
\* and payloads as they were, and releases the node it allocated, not its payload.
C1_BeyondLengthFailsCleanly ==
  [][(/\ last'.call.op = "push_by_index" /\ last'.call.hasSlot /\ last'.call.ok
      /\ root # NULL
      /\ last'.call.index > Len(Chain(node, root)))
     => (/\ undefined' = "none"
         /\ last'.ret = FALSE
         /\ Chain(node', root') = Chain(node, root)
         /\ ChainData(node', root') = ChainData(node, root)
         /\ Len(last'.allocs) = 1
         /\ last'.frees = last'.allocs
         /\ last'.pfrees = <<>>)]_vars

\* C2: a list_push_by_index at index k <= n that returns true turns the chain
\* c[1..n] into c[1..k], new node, c[k+1..n]; the new node carries x and the payloads
\* of the former nodes are untouched.
C2_PushByIndexInserts ==
  [][(/\ last'.call.op = "push_by_index" /\ last'.ret
      /\ last'.call.index <= Len(Chain(node, root)))
     => LET c == Chain(node, root)
            k == last'.call.index
        IN /\ Len(last'.allocs) = 1
           /\ Chain(node', root') =
                SubSeq(c, 1, k) \o <<last'.allocs[1]>> \o SubSeq(c, k + 1, Len(c))
           /\ node'[last'.allocs[1]].data = last'.call.data
           /\ \A i \in 1..Len(c) : node'[c[i]].data = node[c[i]].data]_vars

C2_Witness ==
  /\ last.call.op = "push_by_index" /\ last.ret /\ undefined = "none"
  /\ last.call.index = 1
  /\ Len(CurChain) = 3
  /\ CurChain[2] = last.allocs[1]

\* C3: on an empty chain list_push_by_index with index 0 has the effect and result
\* of list_push_front (one node carrying x when the allocation succeeds); with an
\* index other than 0 it returns false, allocates nothing, leaves errno and the
\* empty chain as they were.
C3_PushByIndexOnEmpty ==
  [][(/\ last'.call.op = "push_by_index" /\ last'.call.hasSlot
      /\ root = NULL)
     => IF last'.call.index = 0
        THEN LET pf == list_push_front(Mem, TRUE, last'.call.data, last'.call.ok)
             IN /\ node' = pf.m.node /\ root' = pf.m.root /\ errno' = pf.m.errno
                /\ last'.ret = pf.ret /\ last'.allocs = pf.m.allocs
                /\ last'.call.ok =>
                     /\ last'.ret
                     /\ Chain(node', root') = last'.allocs
                     /\ ChainData(node', root') = <<last'.call.data>>
        ELSE /\ last'.ret = FALSE
             /\ last'.allocs = <<>>
             /\ errno' = errno
             /\ root' = NULL
             /\ node' = node]_vars

C3_Witness ==
  /\ last.call.op = "push_by_index" /\ last.call.hasSlot
  /\ last.call.index = 2
  /\ ~last.ret
  /\ root = NULL
  /\ last.allocs = <<>>

\* the positions of a sequence of payloads that hold the first occurrence of a value
FirstPositions(d) ==
  {i \in 1..Len(d) : \A j \in 1..(i - 1) : d[j].val # d[i].val}

RECURSIVE Pick(_, _, _)
Pick(c, S, i) ==
  IF i > Len(c) THEN <<>>
  ELSE (IF i \in S THEN <<c[i]>> ELSE <<>>) \o Pick(c, S, i + 1)

Range(f) == {f[i] : i \in DOMAIN f}

\* C4: list_remove_duplicates(root, mode, INT) ends and leaves exactly the nodes
\* that held the first occurrence of each value, in their original order and with
\* their payloads; every other node of the chain is released, once.
C4_RemoveDuplicatesKeepsFirsts ==
  (last.call.op = "remove_duplicates" /\ last.call.hasSlot /\ last.call.type = INT)
  => LET keep == FirstPositions(hist.data) IN
     /\ CurChain = Pick(hist.chain, keep, 1)
     /\ CurData = Pick(hist.data, keep, 1)
     /\ Range(last.frees) = Range(hist.chain) \ Range(CurChain)
     /\ Len(last.frees) = Len(hist.chain) - Len(CurChain)
     /\ ~heapFault

C4_Witness ==
  /\ last.call.op = "remove_duplicates" /\ last.call.hasSlot /\ last.call.type = INT
  /\ [i \in 1..Len(hist.data) |-> hist.data[i].val] = <<3, 2, 3, 1, 2, 3>>
  /\ [i \in 1..Len(CurData) |-> CurData[i].val] = <<3, 2, 1>>

\* C5: list_remove_duplicates(root, mode, INT) on a non-empty chain returns true,
\* whatever it removed and whatever calls came before it.
C5_RemoveDuplicatesReturnsTrue ==
  (/\ last.call.op = "remove_duplicates" /\ last.call.hasSlot /\ last.call.type = INT
   /\ root # NULL)
  => last.ret = TRUE

\* C6: list_remove_duplicates returns true exactly when it removed a duplicate.
C6_RemoveDuplicatesReturnsRemoved ==
  last.call.op = "remove_duplicates" => (last.ret <=> last.frees # <<>>)

\* C7: after every call the chain from root ends within the heap's cells (no
\* cycle), no node is on it twice, every node on it (root first) is live, nothing
\* was released that was not live, and no call released a node twice.
C7_ChainWellFormed ==
  LET c == CurChain IN
  /\ Len(c) <= Cardinality(Addr)
  /\ \A i, j \in 1..Len(c) : i # j => c[i] # c[j]
  /\ \A i \in 1..Len(c) : node[c[i]].live
  /\ root # NULL => node[root].live /\ c[1] = root
  /\ root = NULL => c = <<>>
  /\ ~heapFault
  /\ \A i, j \in 1..Len(last.frees) : i # j => last.frees[i] # last.frees[j]
  /\ \A i \in 1..Len(last.frees) : ~node[last.frees[i]].live

C7_Witness ==
  /\ last.call.op = "pop_back" /\ last.ret
  /\ Len(last.frees) = 1
  /\ Len(CurChain) = 2

Destructive ==
  {"deallocate_node", "pop_front", "pop_back", "pop_by_index", "deallocate",
   "remove_duplicate_int"}

\* C8: a destructive call releases nodes of the chain only; in WEAK mode it
\* releases no payload, in STRONG mode exactly the non-null payloads of the nodes
\* it releases, and the payloads of all other nodes stay as they were.
C8_ModeDecidesPayloadRelease ==
  [][(last'.call.op \in Destructive /\ last'.call.hasSlot)
     => /\ Range(last'.frees) \subseteq Range(Chain(node, root))
        /\ last'.pfrees =
             IF last'.call.mode = STRONG
             THEN SelectSeq(last'.frees, LAMBDA n : node[n].data.kind # "null")
             ELSE <<>>
        /\ \A n \in Addr \ Range(last'.frees) : node'[n].data = node[n].data]_vars

C8_Witness ==
  /\ last.call.op = "deallocate" /\ last.call.mode = STRONG /\ last.ret
  /\ Len(last.frees) = 3
  /\ Len(last.pfrees) = 2

\* C9: on a non-empty chain list_push_back (its allocation succeeding) followed by
\* list_pop_back, in either mode, both return true and leave the chain with the
\* nodes and payloads it had before the two calls.
C9_PushBackPopBackRestores ==
  (hist.pc = "popped" /\ hist.chain # <<>> /\ hist.pushOk)
  => /\ hist.pushRet
     /\ last.ret
     /\ CurChain = hist.chain
     /\ CurData = hist.data

C9_Witness ==
  /\ hist.pc = "popped" /\ hist.pushOk /\ hist.pushRet /\ last.ret
  /\ last.call.mode = STRONG
  /\ Len(hist.chain) = 2
  /\ CurChain = hist.chain

Reverse(q) == [i \in 1..Len(q) |-> q[Len(q) + 1 - i]]

\* C10: after successful list_push_front calls of v1, ..., vn the chain is the
\* new nodes carrying vn, ..., v1 followed by the former chain unchanged; the node
\* just pushed is the root and is what list_get_by_index(root, 0) returns.
C10_PushFrontPrepends ==
  /\ CurChain = Reverse(hist.nodes) \o hist.chain
  /\ CurData = Reverse(hist.pushed) \o hist.data
  /\ (last.call.op = "push_front" /\ last.ret)
     => /\ last.allocs = <<root>>
        /\ node[root].data = last.call.data
        /\ list_get_by_index(Mem, TRUE, 0).ret = last.allocs[1]

C10_Witness ==
  /\ last.call.op = "push_front" /\ last.ret
  /\ hist.chain = <<>>
  /\ hist.pushed = <<IntData(3), IntData(2), IntData(1)>>
  /\ CurData = <<IntData(1), IntData(2), IntData(3)>>

\* C11: a list_push_back that returns true turns the chain c[1..n] into c[1..n], new
\* node: the former nodes keep their order and payloads, the new node is last and
\* carries x (and is root when n = 0); list_push_by_index(root, x, n) on the same
\* chain succeeds and produces the same chain.
C11_PushBackAppends ==
  [][(last'.call.op = "push_back" /\ last'.ret)
     => LET c == Chain(node, root) IN
        /\ Len(last'.allocs) = 1
        /\ Chain(node', root') = Append(c, last'.allocs[1])
        /\ Len(Chain(node', root')) = Len(c) + 1
        /\ node'[last'.allocs[1]].data = last'.call.data
        /\ \A i \in 1..Len(c) : node'[c[i]].data = node[c[i]].data
        /\ (c = <<>>) => root' = last'.allocs[1]
        /\ \A r \in list_push_by_index(Mem, TRUE, last'.call.data, Len(c), TRUE) :
             /\ r.ret
             /\ r.m.undefined = "none"
             /\ Chain(r.m.node, r.m.root) = Chain(node', root')
             /\ ChainData(r.m.node, r.m.root) = ChainData(node', root')]_vars

C11_Witness ==
  /\ last.call.op = "push_back" /\ last.ret
  /\ Len(CurChain) = 3
  /\ CurChain[3] = last.allocs[1]
  /\ CurData[3] = last.call.data

\* C12: list_push_back and list_push_front without a root slot return false with
\* errno EINVAL; with a failing node allocation they return false with errno ENOMEM;
\* in both cases no node is allocated and the heap and the chain stay as they were.
C12_PushFailures ==
  [][(/\ last'.call.op \in {"push_back", "push_front"}
      /\ (~last'.call.hasSlot \/ ~last'.call.ok))
     => /\ last'.ret = FALSE
        /\ errno' = (IF ~last'.call.hasSlot THEN EINVAL ELSE ENOMEM)
        /\ last'.allocs = <<>>
        /\ node' = node
        /\ root' = root]_vars

C12_Witness ==
  /\ last.call.op = "push_front" /\ last.call.hasSlot /\ ~last.call.ok
  /\ ~last.ret
  /\ errno = ENOMEM
  /\ Len(CurChain) = 2

Pops == {"pop_front", "pop_back", "pop_by_index"}

\* the pop call `call` made on the memory m
PopCall(call, m) ==
  CASE call.op = "pop_front" -> list_pop_front(m, call.hasSlot, call.mode)
    [] call.op = "pop_back" -> list_pop_back(m, call.hasSlot, call.mode)
    [] OTHER -> list_pop_by_index(m, call.hasSlot, call.mode, call.index)

\* C13: on a non-empty chain list_pop_front releases exactly the first node and
\* root becomes the former second node (NULL when there was none); list_pop_back
\* releases exactly the last node; the call returns true and the other nodes keep
\* their order and payloads.
C13_PopFrontPopBack ==
  [][(/\ last'.call.op \in {"pop_front", "pop_back"} /\ last'.call.hasSlot
      /\ root # NULL)
     => LET c == Chain(node, root)
            n == Len(c)
            front == last'.call.op = "pop_front"
            rest == IF front THEN Tail(c) ELSE SubSeq(c, 1, n - 1)
        IN /\ last'.ret
           /\ last'.frees = (IF front THEN <<c[1]>> ELSE <<c[n]>>)
           /\ Chain(node', root') = rest
           /\ \A i \in 1..Len(rest) : node'[rest[i]].data = node[rest[i]].data
           /\ front => root' = (IF n > 1 THEN c[2] ELSE NULL)
           /\ ~heapFault']_vars

C13_Witness ==
  /\ last.call.op = "pop_front" /\ last.ret
  /\ Len(last.frees) = 1
  /\ Len(CurChain) = 2
  /\ node[root].live

\* C14: a pop function called without a root slot or on an empty chain returns
\* false, sets errno to EINVAL, releases nothing, faults nothing and leaves heap and
\* chain as they were (the empty chain empty); the same call made again returns false
\* again and leaves everything, errno included, as the first call left it.
C14_PopOnEmptyFails ==
  [][(/\ last'.call.op \in Pops
      /\ (~last'.call.hasSlot \/ root = NULL))
     => /\ last'.ret = FALSE
        /\ errno' = EINVAL
        /\ last'.frees = <<>> /\ last'.pfrees = <<>>
        /\ node' = node /\ root' = root
        /\ last'.call.hasSlot => Chain(node', root') = <<>>
        /\ ~heapFault' /\ undefined' = "none"
        /\ LET again == PopCall(last'.call, Mem') IN
           /\ again.ret = FALSE
           /\ again.m.frees = <<>> /\ again.m.pfrees = <<>>
           /\ again.m.node = node' /\ again.m.root = root'
           /\ again.m.errno = errno'
           /\ ~again.m.fault]_vars

C14_Witness ==
  /\ last.call.op = "pop_by_index" /\ last.call.hasSlot /\ last.call.index = 1
  /\ ~last.ret
  /\ root = NULL
  /\ errno = EINVAL
  /\ PopCall(last.call, Mem).ret = FALSE

\* C15: list_pop_by_index at index k < n returns true, releases exactly the node at
\* position k and leaves the other n - 1 nodes in their order with their payloads;
\* at k = 0 its result and effect are those of list_pop_front.
C15_PopByIndexRemovesKth ==
  [][(/\ last'.call.op = "pop_by_index" /\ last'.call.hasSlot
      /\ last'.call.index < Len(Chain(node, root)))
     => LET c == Chain(node, root)
            k == last'.call.index
            rest == SubSeq(c, 1, k) \o SubSeq(c, k + 2, Len(c))
        IN /\ last'.ret
           /\ last'.frees = <<c[k + 1]>>
           /\ Chain(node', root') = rest
           /\ Len(rest) = Len(c) - 1
           /\ \A i \in 1..Len(rest) : node'[rest[i]].data = node[rest[i]].data
           /\ (k = 0) =>
                LET pf == list_pop_front(Mem, TRUE, last'.call.mode) IN
                /\ node' = pf.m.node /\ root' = pf.m.root /\ errno' = pf.m.errno
                /\ last'.ret = pf.ret
                /\ last'.frees = pf.m.frees /\ last'.pfrees = pf.m.pfrees]_vars

C15_Witness ==
  /\ last.call.op = "pop_by_index" /\ last.call.index = 1 /\ last.ret
  /\ Len(last.frees) = 1
  /\ Len(CurChain) = 2

NoDuplicate(d) == \A i, j \in 1..Len(d) : i # j => d[i].val # d[j].val

\* the calls that find nothing: an index at or beyond the length, a value that no
\* node holds, a chain without duplicates
NotFoundCall(call, c, d) ==
  /\ call.hasSlot
  /\ \/ call.op = "pop_by_index" /\ c # <<>> /\ call.index >= Len(c)
     \/ call.op = "get_by_index" /\ call.index >= Len(c)
     \/ /\ call.op \in {"get_by_integer_value", "get_by_string_value"}
        /\ \A i \in 1..Len(d) : d[i].val # call.data.val
     \/ call.op = "remove_duplicate_int" /\ c # <<>> /\ NoDuplicate(d)

\* C16: list_pop_by_index with index >= length on a non-empty chain and
\* list_remove_duplicate_int on a non-empty chain without duplicates return false,
\* list_get_by_index with index >= length and list_get_by_integer_value /
\* list_get_by_string_value for a value no node holds return NULL; each leaves
\* errno, the heap and the chain as they were before the call and releases nothing.
C16_NotFoundLeavesErrno ==
  [][NotFoundCall(last'.call, Chain(node, root), ChainData(node, root))
     => /\ last'.ret = FALSE
        /\ last'.retNode = NULL
        /\ errno' = errno
        /\ node' = node /\ root' = root
        /\ last'.frees = <<>> /\ last'.pfrees = <<>>]_vars

C16_Witness ==
  /\ last.call.op = "get_by_string_value" /\ last.call.hasSlot
  /\ last.call.data = StrData(<<"b">>)
  /\ last.retNode = NULL
  /\ Len(CurChain) = 3
  /\ errno = ENONE

ConvertDone ==
  /\ last.call.op = "convert_strings_to_int_ptrs" /\ last.call.hasSlot
  /\ hist.chain # <<>>
  /\ last.call.index = 0

\* a text that does not parse: its value is zero and it does not begin with '0'
BadText(s) == atoi(s) = 0 /\ (s = <<>> \/ s[1] # "0")

\* a text that does not parse, read literally: its value is zero and it is not "0"
BadTextLiteral(s) == atoi(s) = 0 /\ s # <<"0">>

\* the integers a chain of strings converts to
Converted(d) == [i \in 1..Len(d) |-> IntData(atoi(d[i].val))]

\* C18: when no allocation fails and at least one node's text does not parse,
\* list_convert_strings_to_int_ptrs returns false with errno EINVAL and has still
\* converted every node, before and after the bad ones: each node holds a newly
\* allocated integer, the value of its text, and its string was released once
\* (on ["10", "x", "3"] nodes 1 and 3 hold 10 and 3).
C18_ConvertGoesOnAfterBadText ==
  (ConvertDone /\ \E i \in 1..Len(hist.data) : BadText(hist.data[i].val))
  => /\ last.ret = FALSE
     /\ errno = EINVAL
     /\ CurChain = hist.chain
     /\ CurData = Converted(hist.data)
     /\ last.pallocs = hist.chain
     /\ last.pfrees = hist.chain
     /\ last.allocs = <<>> /\ last.frees = <<>>
     /\ ~heapFault

C18_Witness ==
  /\ ConvertDone
  /\ hist.data = <<StrData(<<"1", "0">>), StrData(<<"x">>), StrData(<<"3">>)>>
  /\ ~last.ret /\ errno = EINVAL
  /\ CurData = <<IntData(10), IntData(0), IntData(3)>>
  /\ last.pfrees = <<1, 2, 3>>

NoRepeat(q) == \A i, j \in 1..Len(q) : i # j => q[i] # q[j]

ReadLinesFailed == last.call.op = "read_lines_as_string" /\ last.retNode = NULL

\* C20: when list_read_lines_as_string fails (on the first line or after having
\* read lines), it returns NULL and has released every node and every buffer it
\* allocated in the call, each exactly once: none of them is live or reachable.
C20_FailedReadReleasesAll ==
  ReadLinesFailed
  => /\ root = NULL
     /\ NoRepeat(last.frees) /\ Range(last.frees) = Range(last.allocs)
     /\ Len(last.frees) = Len(last.allocs)
     /\ NoRepeat(last.pfrees) /\ Range(last.pfrees) = Range(last.pallocs)
     /\ Len(last.pfrees) = Len(last.pallocs)
     /\ \A a \in Addr : ~node[a].live
     /\ ~heapFault

\* two lines read, the third read fails at the end of the input
C20_Witness ==
  /\ ReadLinesFailed
  /\ hist.count = 3 /\ hist.fail = NoFail
  /\ hist.stdin = <<"7", "\n", "1", "0", "\n">>
  /\ hist.buffer_size = 4
  /\ stdin = <<>>
  /\ Len(last.allocs) = 3 /\ Len(last.pallocs) = 3
  /\ Len(last.frees) = 3 /\ Len(last.pfrees) = 3

\* what makes the read of lines k..count fail first: the allocation chosen to fail
\* or the input ending; "none" when all of them can be read
RECURSIVE ReadCause(_, _, _, _, _)
ReadCause(in, buffer_size, count, fail, k) ==
  IF k > count THEN "none"
  ELSE IF fail.line = k THEN ENOMEM
  ELSE IF ~fgets(in, buffer_size).ok THEN EIO
  ELSE ReadCause(fgets(in, buffer_size).rest, buffer_size, count, fail, k + 1)

\* the cause of the failure of the call recorded in hist
FailureCause ==
  IF hist.count = 0 \/ hist.buffer_size = 0 THEN EINVAL
  ELSE ReadCause(hist.stdin, hist.buffer_size, hist.count, hist.fail, 1)

\* C21: when list_read_lines_as_string fails, errno at return names the cause: EINVAL
\* for a zero count or buffer size, ENOMEM for a failed allocation, EIO for a failed
\* read of a line, whichever line fails.
C21_ErrnoNamesCause ==
  ReadLinesFailed => errno = FailureCause

\* the lines of an input: each with its newline, the last one possibly without
RECURSIVE SplitLines(_)
SplitLines(in) ==
  IF in = <<>> THEN <<>>
  ELSE LET nl == NewlineAt(in, 1)
           len == IF nl = 0 THEN Len(in) ELSE nl
       IN <<SubSeq(in, 1, len)>> \o SplitLines(SubSeq(in, len + 1, Len(in)))

StripNewline(l) ==
  IF l # <<>> /\ l[Len(l)] = "\n" THEN SubSeq(l, 1, Len(l) - 1) ELSE l

\* a call with positive size and count, no failing allocation and an input of at
\* least count lines
ReadSupplied ==
  /\ last.call.op = "read_lines_as_string"
  /\ hist.count > 0 /\ hist.buffer_size > 0
  /\ hist.fail = NoFail
  /\ Len(SplitLines(hist.stdin)) >= hist.count

ReadOfNothing == last.call.op = "read_lines_as_string" /\ hist.count = 0

CurTexts == [i \in 1..Len(CurData) |-> CurData[i].val]

C23_GetByIndexReturnsKth ==
  [][last'.call.op = "get_by_index"
     => /\ node' = node /\ root' = root
        /\ last'.allocs = <<>> /\ last'.frees = <<>>
        /\ last'.pallocs = <<>> /\ last'.pfrees = <<>>
        /\ IF last'.call.hasSlot
             THEN /\ errno' = errno
                  /\ last'.retNode = IF last'.call.index < Len(CurChain)
                                       THEN CurChain[last'.call.index + 1]
                                       ELSE NULL
             ELSE errno' = EINVAL /\ last'.retNode = NULL]_vars

C23_Witness ==
  /\ last.call.op = "get_by_index"
  /\ last.call.hasSlot
  /\ last.call.index = 2
  /\ Len(CurChain) = 3
  /\ last.retNode = CurChain[3]
  /\ last.retNode # root

\* C24: list_get_length returns the number of nodes reachable from the root; on an
\* empty chain it returns 0 and leaves errno as it was, without a root slot it
\* returns 0 and sets errno to EINVAL; the chain is not touched.
C24_GetLengthCountsNodes ==
  [][last'.call.op = "get_length"
     => /\ node' = node /\ root' = root
        /\ IF last'.call.hasSlot
             THEN last'.out = Len(CurChain) /\ errno' = errno
             ELSE last'.out = 0 /\ errno' = EINVAL]_vars

C24_Witness ==
  /\ last.call.op = "get_length"
  /\ last.call.hasSlot
  /\ root = NULL
  /\ last.out = 0
  /\ errno = ENONE

\* the greatest and the least element of a non-empty sequence of ints
Greatest(d) == CHOOSE x \in Range(d) : \A y \in Range(d) : y <= x
Least(d) == CHOOSE x \in Range(d) : \A y \in Range(d) : x <= y
CurVals == [i \in 1..Len(CurData) |-> CurData[i].val]

\* C25: on a non-empty chain of ints list_get_max_int and list_get_min_int return
\* true and store the greatest, respectively the least, payload in the caller's
\* int (9 and 1 on [4,9,1,9,4]), leaving errno and the chain alone; without a root
\* slot, on an empty chain or without an output slot they return false, set errno
\* to EINVAL and leave the caller's int as it was.
C25_MaxMinOfChain ==
  [][last'.call.op \in {"get_max_int", "get_min_int"}
     => /\ node' = node /\ root' = root
        /\ IF last'.call.hasSlot /\ root # NULL /\ last'.call.ok
             THEN /\ last'.ret = TRUE
                  /\ errno' = errno
                  /\ last'.out = IF last'.call.op = "get_max_int"
                                   THEN Greatest(CurVals) ELSE Least(CurVals)
                  /\ CurVals = <<4, 9, 1, 9, 4>>
                       => last'.out = IF last'.call.op = "get_max_int" THEN 9 ELSE 1
             ELSE /\ last'.ret = FALSE
                  /\ errno' = EINVAL
                  /\ last'.out = last'.call.index]_vars

C25_Witness ==
  /\ last.call.op = "get_max_int"
  /\ last.ret = TRUE
  /\ CurVals = <<4, 9, 1, 9, 4>>
  /\ last.out = 9
  /\ last.call.index = 7

\* the calls that name a payload kind the called dispatcher does not implement
UnimplementedCall(call) ==
  \/ call.op \in {"remove_duplicate", "remove_duplicates"} /\ call.type # INT
  \/ call.op = "get_by_value" /\ call.type \notin {INT, STRING_TYPE}

\* C26: list_remove_duplicate and list_remove_duplicates with a kind other than
\* INT, and list_get_by_value with a kind other than INT and STRING, set errno to
\* ECANCELED, return false / NULL, and leave the chain and every payload as they
\* were: nothing is removed or released.
C26_UnimplementedKindCancelled ==
  [][UnimplementedCall(last'.call)
     => /\ errno' = ECANCELED
        /\ last'.ret = FALSE
        /\ last'.retNode = NULL
        /\ node' = node /\ root' = root
        /\ last'.frees = <<>> /\ last'.pfrees = <<>>]_vars

C26_Witness ==
  /\ last.call.op = "remove_duplicates"
  /\ last.call.type = STRING_TYPE
  /\ last.call.mode = STRONG
  /\ Len(CurChain) = 3
  /\ CurData[1] = CurData[2]
  /\ errno = ECANCELED
  /\ last.ret = FALSE

\* the positions of the chain whose payload is the searched value
Matches(d, call) == {i \in 1..Len(d) : d[i] = call.data}

\* C29: list_get_by_integer_value and list_get_by_string_value return the first
\* node in traversal order whose payload equals the searched value, NULL when the
\* chain is empty or holds no match (or no root slot is given); the chain is not
\* modified.
C29_SearchReturnsFirstMatch ==
  [][last'.call.op \in {"get_by_integer_value", "get_by_string_value"}
     => /\ node' = node /\ root' = root
        /\ last'.frees = <<>> /\ last'.pfrees = <<>>
        /\ LET found == Matches(CurData, last'.call) IN
           last'.retNode =
             IF last'.call.hasSlot /\ found # {}
             THEN CurChain[CHOOSE i \in found : \A j \in found : i <= j]
             ELSE NULL]_vars

C29_Witness ==
  /\ last.call.op = "get_by_string_value"
  /\ last.call.hasSlot
  /\ Len(CurChain) = 3
  /\ Matches(CurData, last.call) = {2, 3}
  /\ last.retNode = CurChain[2]

\* the positions that have a later node with an equal value
Repeated(d) == {i \in 1..Len(d) : \E j \in (i + 1)..Len(d) : d[j].val = d[i].val}
Smallest(S) == CHOOSE i \in S : \A j \in S : i <= j
\* the position list_remove_duplicate_int is to remove: the first node after the
\* first repeated one that holds its value
Duplicate(d) ==
  LET i == Smallest(Repeated(d)) IN
  Smallest({j \in (i + 1)..Len(d) : d[j].val = d[i].val})

\* C30: list_remove_duplicate_int on a chain with a duplicate returns true after
\* removing exactly one node: with i the smallest position that has a later node
\* of equal value, the node at the smallest position j > i holding that value;
\* every other node keeps its payload and its relative order.  Without two equal
\* values it returns false and the chain is unchanged; without a root slot or on
\* an empty chain it returns false and sets errno to EINVAL.
C30_RemovesOneDuplicate ==
  [][last'.call.op = "remove_duplicate_int"
     => IF ~last'.call.hasSlot \/ CurChain = <<>>
          THEN /\ last'.ret = FALSE
               /\ errno' = EINVAL
               /\ node' = node /\ root' = root
          ELSE IF Repeated(CurData) = {}
          THEN /\ last'.ret = FALSE
               /\ node' = node /\ root' = root
          ELSE LET j == Duplicate(CurData)
                   kept == (1..Len(CurChain)) \ {j}
               IN /\ last'.ret = TRUE
                  /\ last'.frees = <<CurChain[j]>>
                  /\ CurChain' = Pick(CurChain, kept, 1)
                  /\ \A k \in kept : node'[CurChain[k]].data = CurData[k]]_vars

C30_Witness ==
  /\ last.call.op = "remove_duplicate_int"
  /\ last.ret = TRUE
  /\ Len(last.frees) = 1
  /\ Len(CurChain) = 2
  /\ CurData[1].val = 1 /\ CurData[2].val = 1

\* what a call that printed the nodes of positions S of chain c has rendered
PrintedNodes(S) == Pick(CurChain, S, 1)
PrintedLog == [i \in 1..Len(last.printed) |-> last.printed[i].node]

\* C28: list_print_node on a present node with an implemented kind returns true
\* after rendering it, and list_print over a chain of such nodes renders every
\* node of the chain in order and returns true; they return false only without a
\* node / root slot (errno EINVAL) or for a kind that is not implemented (errno
\* ECANCELED), in every state in which they can be called.
C28_PrintSucceeds ==
  [][last'.call.op \in {"print_node", "print"}
     => /\ node' = node /\ root' = root
        /\ last'.ret = FALSE
             => \/ ~last'.call.hasSlot /\ errno' = EINVAL
                \/ last'.call.type = DOUBLE /\ errno' = ECANCELED
        /\ last'.call.hasSlot /\ last'.call.type # DOUBLE
             => /\ last'.ret = TRUE
                /\ PrintedLog' = IF last'.call.op = "print" THEN CurChain
                                 ELSE <<CurChain[last'.call.index]>>]_vars

\* the calls main makes before its `return 0`
CallsOf(program) == IF program = 1 THEN 5 ELSE 3

\* C27: the demo program ends with list_deallocate(&numbers, STRONG) on every
\* path; it returns 0 when the reading, the conversion, the removal of duplicates
\* and the extremum searches all succeeded and 1 when one of them failed; and
\* when main returns no node is allocated and no payload buffer is owned, nothing
\* having been released twice.
C27_DemoTearsDownAndReports ==
  [][hist.pc # "done" /\ hist'.pc = "done"
     => /\ last'.call.op = "deallocate" /\ last'.call.mode = STRONG
        /\ root' = NULL
        /\ \A a \in DOMAIN node' : ~node'[a].live
        /\ hist'.payloads = 0
        /\ ~heapFault' /\ undefined' = "none"
        /\ hist'.status = IF \E i \in 1..Len(hist.rets) : ~hist.rets[i] THEN 1 ELSE 0
        /\ hist'.status = 0 => Len(hist.rets) = CallsOf(hist.program)]_vars

C27_Witness ==
  /\ hist.pc = "done"
  /\ hist.program = 1
  /\ hist.status = 1
  /\ hist.rets = <<TRUE, FALSE>>
  /\ last.call.op = "deallocate"
  /\ Len(last.frees) = N
  /\ Len(last.pfrees) = N

\* C31: list_remove_duplicates(root, mode, INT) ends on every finite chain: each
\* call of list_remove_duplicate in its loop that returns true shortens the chain
\* by exactly one node, a call that returns false leaves the chain as it is and
\* ends the loop, and on a chain of n nodes at most n-1 calls return true.
C31_RemoveDuplicatesTerminates ==
  [][/\ hist'.pc = "while"
        => IF hist'.removed
             THEN /\ Len(CurChain') = Len(CurChain) - 1
                  /\ Len(last'.frees) = 1
                  /\ hist'.removals <= hist.length - 1
             ELSE node' = node /\ root' = root
     /\ hist.pc = "while" /\ ~hist.removed => hist'.pc = "done"]_vars

C31_Witness ==
  /\ hist.pc = "done"
  /\ hist.length = DedupLen
  /\ hist.removals = DedupLen - 1
  /\ Len(CurChain) = 1

\* the first n elements of a sequence
Prefix(q, n) == [i \in 1..n |-> q[i]]

\* a conversion whose allocation for the node of position call.index (counted from
\* 1) failed
ConvertNoMem(call, c) ==
  /\ call.op = "convert_strings_to_int_ptrs" /\ call.hasSlot
  /\ call.index \in 1..Len(c)

\* C32: when the allocation of the integer for the node at position k fails,
\* list_convert_strings_to_int_ptrs returns false at once with errno ENOMEM: the
\* nodes before k hold newly allocated integers (their strings released once), the
\* nodes from k on still hold their strings, no payload is released twice or lost;
\* and a list_deallocate(root, STRONG) that follows releases every node and every
\* payload exactly once.
C32_ConvertStopsAtNoMem ==
  [][/\ ConvertNoMem(last'.call, CurChain)
        => LET k == last'.call.index IN
           /\ last'.ret = FALSE
           /\ errno' = ENOMEM
           /\ CurChain' = CurChain
           /\ CurData' = [i \in 1..Len(CurData) |->
                            IF i < k THEN IntData(atoi(CurData[i].val)) ELSE CurData[i]]
           /\ last'.pallocs = Prefix(CurChain, k - 1)
           /\ last'.pfrees = Prefix(CurChain, k - 1)
           /\ last'.allocs = <<>> /\ last'.frees = <<>>
           /\ ~heapFault'
     /\ (/\ ConvertNoMem(last.call, CurChain)
         /\ last'.call.op = "deallocate" /\ last'.call.mode = STRONG)
        => /\ last'.frees = CurChain
           /\ last'.pfrees = CurChain
           /\ root' = NULL
           /\ \A a \in Addr : ~node'[a].live
           /\ ~heapFault']_vars

\* the allocation for the second of three nodes failed
C32_Witness ==
  /\ ConvertNoMem(last.call, CurChain)
  /\ last.call.index = 2
  /\ CurData = <<IntData(10), StrData(<<"3">>), StrData(<<"x">>)>>
  /\ errno = ENOMEM
  /\ last.pfrees = <<1>>

\* C33: list_deallocate_node(slot, mode) without a slot returns false and sets
\* errno to EINVAL; with a slot holding no node it returns false, releases nothing
\* and leaves errno alone; with a slot holding a node it releases that node (and
\* its payload in STRONG mode, if it has one), clears the slot and returns true,
\* leaving errno and every other node alone, so that a second call on the same
\* slot releases nothing.
C33_DeallocateNodeClearsSlot ==
  [][/\ last'.call.op = "deallocate_node"
        => IF ~last'.call.hasSlot
             THEN /\ last'.ret = FALSE /\ errno' = EINVAL
                  /\ node' = node /\ root' = root
                  /\ last'.frees = <<>> /\ last'.pfrees = <<>>
             ELSE IF root = NULL
             THEN /\ last'.ret = FALSE /\ errno' = errno
                  /\ node' = node /\ root' = root
                  /\ last'.frees = <<>> /\ last'.pfrees = <<>>
             ELSE /\ last'.ret = TRUE /\ errno' = errno
                  /\ root' = NULL
                  /\ last'.frees = <<root>>
                  /\ last'.pfrees = IF last'.call.mode = STRONG /\ node[root].data # NullData
                                      THEN <<root>> ELSE <<>>
                  /\ node' = [node EXCEPT ![root] = FreeNode]
                  /\ ~heapFault'
     /\ (/\ last.call.op = "deallocate_node" /\ last.ret
         /\ last'.call.op = "deallocate_node" /\ last'.call.hasSlot)
        => /\ last'.ret = FALSE
           /\ last'.frees = <<>> /\ last'.pfrees = <<>>
           /\ ~heapFault']_vars

C33_Witness ==
  /\ last.call.op = "deallocate_node"
  /\ last.call.mode = STRONG
  /\ last.ret = TRUE
  /\ Len(last.frees) = 1 /\ last.pfrees = last.frees
  /\ root = NULL
  /\ ~node[last.frees[1]].live

\* C34: list_allocate_node(data), in each copy of the library, returns a newly
\* allocated node holding data and no successor, leaving every other node as it
\* was; when the allocation fails it returns NULL and sets errno to ENOMEM.
C34_AllocateNodeReportsNoMem ==
  [][last'.call.op = "allocate_node"
     => IF last'.call.ok
          THEN /\ last'.retNode # NULL
               /\ ~node[last'.retNode].live
               /\ node' = [node EXCEPT ![last'.retNode] =
                             [live |-> TRUE, data |-> last'.call.data, next |-> NULL]]
               /\ root' = root
          ELSE /\ last'.retNode = NULL
               /\ node' = node /\ root' = root
               /\ errno' = ENOMEM]_vars

\* the calls that report success: true, a node, or a list
ReportsSuccess(l) == l.call.op # "none" /\ (l.ret = TRUE \/ l.retNode # NULL)

\* C35: every call of a list operation that reports success leaves errno as it
\* was before the call, a successful list_push_back onto an empty chain and a
\* successful list_deallocate included.
C35_SuccessLeavesErrno ==
  [][ReportsSuccess(last') => errno' = errno]_vars

\* the nodes allocated and not released
LiveNodes == {a \in DOMAIN node : node[a].live}

\* C36: after every completed call, in any sequence of calls and also when the
\* call failed, every node that is allocated and not released is on the chain of
\* the root slot (the node a call returned is in the caller's slot): no call
\* leaves an allocated node orphaned, and list_get_length is the number of live
\* nodes.
C36_NoOrphanedNode ==
  undefined # "trap"
  => /\ LiveNodes = Range(CurChain)
     /\ list_get_length(Mem, TRUE).ret = Cardinality(LiveNodes)

====
